---- MODULE Spec2Model ----
(***************************************************************************)
(* Teen Patti: the off-chain round state machine (backend/gameLogic.js,     *)
(* backend/server.js) and the custody contract (TeenPattiGame.sol).        *)
(*                                                                         *)
(* Spec      : the socket/HTTP handlers of server.js driving one Game.     *)
(* ChainSpec : the transactions of TeenPattiGame on one on-chain room.     *)
(* HighStakesSpec : a two-player round of raises, played up to the pot     *)
(*             limit of Game.playerAction.                                 *)
(* TableSpec : tables of one to six players dealt from the 52-card Deck.   *)
(* HandSpec  : two-player rounds dealt every pair of a list of hands, seen *)
(*             and shown.                                                  *)
(***************************************************************************)
EXTENDS Integers, Sequences, FiniteSets, TLC

(***************************************************************************)
(* Model bounds                                                            *)
(***************************************************************************)
\* bets are explored while the pot stays within MaxPot
MaxPot == 30
\* events that change the game while no round is active (playerAction, seeCards
\* and show are not refused there) are explored MaxIdle times per room
MaxIdle == 1
\* rounds started per room
MaxRounds == 1
\* buy-in of the high-stakes table: enough chips to raise up to the pot limit
HighBuyIn == 50000
\* largest table dealt from the deck (maxPlayers of a room is 2..6)
MaxTable == 6
\* rounds started per table
MaxTableRounds == 2
\* largest maxPlayers a wallet room is created with
MaxSeats == 3
\* players seated over the life of the room
MaxJoins == 3

Sockets == {"s1", "s2", "s3"}
Uuids == {"u1"}
\* the wallet address each connection submits: s3 is a second session of w1
WalletSessions == {<<"s1", "w1">>, <<"s2", "w2">>, <<"s3", "w1">>}
\* the session that creates the room
Creators == {<<"s1", "w1">>}
\* the connections that use the plain joinRoom event
PlainSockets == {"s3"}
\* buyInTokens payloads of createRoomWithBlockchain / joinRoomWithBlockchain
BuyInTokens == {15, 40}
\* amounts a client submits with bet / chaal
Amounts == {0, 5, 7, 10, 20}

NoId == "none"

Min(a, b) == IF a < b THEN a ELSE b
Max(a, b) == IF a > b THEN a ELSE b

(***************************************************************************)
(* gameLogic.js : cards and hands                                          *)
(***************************************************************************)
RANKS == <<"2", "3", "4", "5", "6", "7", "8", "9", "10", "J", "Q", "K", "A">>
SUITS == <<"hearts", "diamonds", "clubs", "spades">>

HAND_RANKINGS ==
  [HIGH_CARD |-> 0, PAIR |-> 1, COLOR |-> 2, SEQUENCE |-> 3,
   PURE_SEQUENCE |-> 4, TRIO |-> 5]

Card(rank, suit) == [rank |-> rank, suit |-> suit]

\* Card.getValue: RANKS.indexOf(rank)
getValue(card) == (CHOOSE i \in 1..Len(RANKS) : RANKS[i] = card.rank) - 1

\* Array.prototype.sort((a, b) => b.getValue() - a.getValue()) on three cards:
\* a stable descending insertion sort
RECURSIVE InsertDesc(_, _)
InsertDesc(sorted, c) ==
  IF sorted = <<>> THEN <<c>>
  ELSE IF getValue(Head(sorted)) >= getValue(c)
       THEN <<Head(sorted)>> \o InsertDesc(Tail(sorted), c)
       ELSE <<c>> \o sorted

RECURSIVE SortDesc(_)
SortDesc(cards) ==
  IF cards = <<>> THEN <<>>
  ELSE InsertDesc(SortDesc(SubSeq(cards, 1, Len(cards) - 1)), cards[Len(cards)])

\* the sequence test with A-2-3 keeping its face values as key
isSequenceAceHigh(values) ==
  IF values[1] = 12 /\ values[2] = 1 /\ values[3] = 0
  THEN [isSequence |-> TRUE, compareValues |-> values]
  ELSE IF values[1] = values[2] + 1 /\ values[2] = values[3] + 1
       THEN [isSequence |-> TRUE, compareValues |-> values]
       ELSE [isSequence |-> FALSE, compareValues |-> values]

\* Game.isSequence(values), values sorted descending
isSequence(values) ==
  IF values[1] = 12 /\ values[2] = 1 /\ values[3] = 0
  THEN [isSequence |-> TRUE, compareValues |-> <<-1, -1, -1>>]
  ELSE IF values[1] = values[2] + 1 /\ values[2] = values[3] + 1
       THEN [isSequence |-> TRUE, compareValues |-> values]
       ELSE [isSequence |-> FALSE, compareValues |-> values]

\* the evaluation with every pair keyed by its cards in descending order
evaluateHandSortedKey(cards) ==
  IF cards = <<>> THEN [rank |-> HAND_RANKINGS.TRIO, values |-> <<>>]
  ELSE
  LET sortedCards == SortDesc(cards)
      values == [i \in 1..3 |-> getValue(sortedCards[i])]
      suits == [i \in 1..3 |-> sortedCards[i].suit]
      sequenceResult == isSequence(values)
      isFlush == suits[1] = suits[2] /\ suits[2] = suits[3]
  IN IF values[1] = values[2] /\ values[2] = values[3]
       THEN [rank |-> HAND_RANKINGS.TRIO, values |-> values]
     ELSE IF sequenceResult.isSequence /\ isFlush
       THEN [rank |-> HAND_RANKINGS.PURE_SEQUENCE, values |-> sequenceResult.compareValues]
     ELSE IF sequenceResult.isSequence
       THEN [rank |-> HAND_RANKINGS.SEQUENCE, values |-> sequenceResult.compareValues]
     ELSE IF isFlush
       THEN [rank |-> HAND_RANKINGS.COLOR, values |-> values]
     ELSE IF values[1] = values[2] \/ values[2] = values[3]
       THEN [rank |-> HAND_RANKINGS.PAIR, values |-> values]
     ELSE [rank |-> HAND_RANKINGS.HIGH_CARD, values |-> values]

\* the evaluation testing the suits before the sequence: a sequence of one
\* suit comes out as a Color
evaluateHandFlushFirst(cards) ==
  IF cards = <<>> THEN [rank |-> HAND_RANKINGS.TRIO, values |-> <<>>]
  ELSE
  LET sortedCards == SortDesc(cards)
      values == [i \in 1..3 |-> getValue(sortedCards[i])]
      suits == [i \in 1..3 |-> sortedCards[i].suit]
      sequenceResult == isSequence(values)
      isFlush == suits[1] = suits[2] /\ suits[2] = suits[3]
  IN IF values[1] = values[2] /\ values[2] = values[3]
       THEN [rank |-> HAND_RANKINGS.TRIO, values |-> values]
     ELSE IF isFlush
       THEN [rank |-> HAND_RANKINGS.COLOR, values |-> values]
     ELSE IF sequenceResult.isSequence
       THEN [rank |-> HAND_RANKINGS.SEQUENCE, values |-> sequenceResult.compareValues]
     ELSE IF values[1] = values[2]
       THEN [rank |-> HAND_RANKINGS.PAIR, values |-> <<values[1], values[2], values[3]>>]
     ELSE IF values[2] = values[3]
       THEN [rank |-> HAND_RANKINGS.PAIR, values |-> <<values[2], values[3], values[1]>>]
     ELSE IF values[1] = values[3]
       THEN [rank |-> HAND_RANKINGS.PAIR, values |-> <<values[1], values[3], values[2]>>]
     ELSE [rank |-> HAND_RANKINGS.HIGH_CARD, values |-> values]

\* Game.evaluateHand(cards). A player who was never dealt holds no cards:
\* values[0] === values[1] === values[2] === undefined, which is the Trio branch
\* with an empty key.
evaluateHand(cards) ==
  IF cards = <<>> THEN [rank |-> HAND_RANKINGS.TRIO, values |-> <<>>]
  ELSE
  LET sortedCards == SortDesc(cards)
      values == [i \in 1..3 |-> getValue(sortedCards[i])]
      suits == [i \in 1..3 |-> sortedCards[i].suit]
      sequenceResult == isSequence(values)
      isFlush == suits[1] = suits[2] /\ suits[2] = suits[3]
  IN IF values[1] = values[2] /\ values[2] = values[3]
       THEN [rank |-> HAND_RANKINGS.TRIO, values |-> values]
     ELSE IF sequenceResult.isSequence /\ isFlush
       THEN [rank |-> HAND_RANKINGS.PURE_SEQUENCE, values |-> sequenceResult.compareValues]
     ELSE IF sequenceResult.isSequence
       THEN [rank |-> HAND_RANKINGS.SEQUENCE, values |-> sequenceResult.compareValues]
     ELSE IF isFlush
       THEN [rank |-> HAND_RANKINGS.COLOR, values |-> values]
     ELSE IF values[1] = values[2]
       THEN [rank |-> HAND_RANKINGS.PAIR, values |-> <<values[1], values[2], values[3]>>]
     ELSE IF values[2] = values[3]
       THEN [rank |-> HAND_RANKINGS.PAIR, values |-> <<values[2], values[3], values[1]>>]
     ELSE IF values[1] = values[3]
       THEN [rank |-> HAND_RANKINGS.PAIR, values |-> <<values[1], values[3], values[2]>>]
     ELSE [rank |-> HAND_RANKINGS.HIGH_CARD, values |-> values]

\* the key comparison stopping after the first position
CompareValuesFirstOnly(v1, v2, i) ==
  IF i > Len(v1) THEN 0
  ELSE IF i > Len(v2) THEN 2
  ELSE IF v1[i] # v2[i] THEN (IF v1[i] > v2[i] THEN 1 ELSE 2)
  ELSE 0

\* the key comparison loop of Game.compareHands: 1 = first hand, 2 = second
\* hand, 0 = tie. Reading past the end of the second key gives undefined, and
\* every comparison with undefined is false, so the second hand is returned.
RECURSIVE CompareValues(_, _, _)
CompareValues(v1, v2, i) ==
  IF i > Len(v1) THEN 0
  ELSE IF i > Len(v2) THEN 2
  ELSE IF v1[i] # v2[i] THEN (IF v1[i] > v2[i] THEN 1 ELSE 2)
  ELSE CompareValues(v1, v2, i + 1)

\* Game.compareHands(player1, player2): the winner's id, NoId for a tie (null)
compareHands(player1, player2) ==
  LET hand1 == evaluateHand(player1.cards)
      hand2 == evaluateHand(player2.cards)
      c == CompareValues(hand1.values, hand2.values, 1)
  IN IF hand1.rank # hand2.rank
       THEN (IF hand1.rank > hand2.rank THEN player1.id ELSE player2.id)
     ELSE IF c = 1 THEN player1.id
     ELSE IF c = 2 THEN player2.id
     ELSE NoId

(***************************************************************************)
(* gameLogic.js : Player                                                   *)
(***************************************************************************)
DEFAULT_CHIPS == 1000000

\* new Player(id, name, socketId, chips); walletAddress is set by server.js
Player(id, chips, walletAddress) ==
  [id |-> id, chips |-> chips, cards |-> <<>>, currentBet |-> 0, totalBet |-> 0,
   isActive |-> TRUE, isFolded |-> FALSE, isBlind |-> TRUE,
   hasSeenCards |-> FALSE, walletAddress |-> walletAddress]

\* a see that also takes the player out of the blind stake: the bets are reset
PlayerSeeCardsAndReset(p) ==
  [p EXCEPT !.hasSeenCards = TRUE, !.isBlind = FALSE, !.currentBet = 0]

\* Player.seeCards
PlayerSeeCards(p) == [p EXCEPT !.hasSeenCards = TRUE, !.isBlind = FALSE]

\* Player.fold
PlayerFold(p) == [p EXCEPT !.isFolded = TRUE, !.isActive = FALSE]

\* a bet taking the whole amount asked, without Math.min(amount, this.chips)
PlayerBetUncapped(p, amount) ==
  [p EXCEPT !.chips = @ - amount, !.currentBet = amount, !.totalBet = @ + amount]

\* Player.bet(amount): the player after the bet; the return value is its
\* currentBet
PlayerBet(p, amount) ==
  LET betAmount == Min(amount, p.chips)
  IN [p EXCEPT !.chips = @ - betAmount, !.currentBet = betAmount,
               !.totalBet = @ + betAmount]

\* a reset that clears the cards and the bets but keeps the flags of the
\* round before
PlayerResetKeepingFlags(p) ==
  [p EXCEPT !.cards = <<>>, !.currentBet = 0, !.totalBet = 0]

\* Player.reset
PlayerReset(p) ==
  [p EXCEPT !.cards = <<>>, !.currentBet = 0, !.totalBet = 0, !.isActive = TRUE,
            !.isFolded = FALSE, !.isBlind = TRUE, !.hasSeenCards = FALSE]

(***************************************************************************)
(* gameLogic.js : Game                                                     *)
(***************************************************************************)
MIN_BET == 10
MIN_PLAYERS == 2
DEFAULT_MAX_PLAYERS == 6
POT_LIMIT_FACTOR == 1024

\* new Game(roomId). roundNumber, a counter that only getGameState reports, is
\* left out.
NewGame ==
  [players |-> <<>>, pot |-> 0, currentBet |-> 0, minBet |-> MIN_BET,
   currentPlayerIndex |-> 0, dealerIndex |-> 0, gameStarted |-> FALSE,
   minPlayers |-> MIN_PLAYERS, maxPlayers |-> DEFAULT_MAX_PLAYERS,
   buyInTokens |-> 0]

\* players.findIndex(p => p.id === playerId), 1-based; 0 when absent
IndexOfId(ps, playerId) ==
  IF \E i \in 1..Len(ps) : ps[i].id = playerId
  THEN CHOOSE i \in 1..Len(ps) :
         ps[i].id = playerId /\ \A j \in 1..(i - 1) : ps[j].id # playerId
  ELSE 0

\* Game.addPlayer
addPlayer(g, player) ==
  IF Len(g.players) >= g.maxPlayers THEN g
  ELSE [g EXCEPT !.players = Append(@, player)]

\* a removal that takes the bets of the removed player out of the pot with them
removePlayerAndBets(g, playerId) ==
  LET i == IndexOfId(g.players, playerId)
  IN IF i = 0 THEN g
     ELSE [g EXCEPT !.players =
             SubSeq(@, 1, i - 1) \o SubSeq(@, i + 1, Len(@)),
                    !.pot = @ - g.players[i].totalBet]

\* Game.removePlayer
removePlayer(g, playerId) ==
  LET i == IndexOfId(g.players, playerId)
  IN IF i = 0 THEN g
     ELSE [g EXCEPT !.players =
             SubSeq(@, 1, i - 1) \o SubSeq(@, i + 1, Len(@))]

\* Game.canStartGame
canStartGame(g) == Len(g.players) >= g.minPlayers /\ ~g.gameStarted

\* Game.getActivePlayers
getActivePlayers(g) == SelectSeq(g.players, LAMBDA p : p.isActive /\ ~p.isFolded)

\* Game.startGame with the hands the shuffled deck deals: hands[i] are the
\* three cards players[i] receives
startGame(g, hands) ==
  IF ~canStartGame(g) THEN g
  ELSE
  LET n == Len(g.players)
      dealt == [i \in 1..n |-> [PlayerReset(g.players[i]) EXCEPT !.cards = hands[i]]]
      anted == [i \in 1..n |-> PlayerBet(dealt[i], g.minBet)]
      RECURSIVE SumAnte(_)
      SumAnte(i) == IF i = 0 THEN 0 ELSE anted[i].currentBet + SumAnte(i - 1)
  IN [g EXCEPT !.gameStarted = TRUE, !.pot = SumAnte(n), !.currentBet = g.minBet,
               !.players = anted,
               !.currentPlayerIndex = (g.dealerIndex + 1) % n]

\* the do-while scan of Game.nextPlayer from index idx: the index it stops at,
\* or -1 when count exceeds players.length
RECURSIVE ScanNext(_, _, _)
ScanNext(ps, idx, count) ==
  LET nidx == (idx + 1) % Len(ps)
  IN IF count + 1 > Len(ps) THEN -1
     ELSE IF ps[nidx + 1].isFolded THEN ScanNext(ps, nidx, count + 1)
     ELSE nidx

\* nextPlayer stepping to the next seat whether its player has folded or not
nextPlayerAnySeat(g) ==
  IF Len(getActivePlayers(g)) <= 1
  THEN [g |-> g, thrown |-> "Cannot advance turn"]
  ELSE [g |-> [g EXCEPT !.currentPlayerIndex = (@ + 1) % Len(g.players)],
        thrown |-> ""]

\* Game.nextPlayer: the game after the call and the Error thrown ("" if none)
nextPlayer(g) ==
  IF Len(getActivePlayers(g)) <= 1
  THEN [g |-> g, thrown |-> "Cannot advance turn"]
  ELSE LET nidx == ScanNext(g.players, g.currentPlayerIndex, 0)
       IN IF nidx < 0
          THEN [g |-> g, thrown |-> "No active non-folded players found"]
          ELSE [g |-> [g EXCEPT !.currentPlayerIndex = nidx], thrown |-> ""]

Rejected(g, error) == [g |-> g, success |-> FALSE, error |-> error, thrown |-> ""]

\* `return { success: true }` with the call of this.nextPlayer() left out
ReturnedWithoutTurn(g) == [g |-> g, success |-> TRUE, error |-> "", thrown |-> ""]

\* `return { success: true }` after this.nextPlayer()
Advanced(g) ==
  LET r == nextPlayer(g)
  IN [g |-> r.g, success |-> r.thrown = "", error |-> "", thrown |-> r.thrown]

\* the bet branch taking any amount from the required one up to its double
BetActionUpToDouble(g, i, amount) ==
  LET player == g.players[i]
      requiredAmount == IF player.isBlind THEN g.currentBet \div 2 ELSE g.currentBet
      minBet == requiredAmount
      maxBet == requiredAmount * 2
      newSeenStake == IF player.isBlind THEN amount * 2 ELSE amount
      placed(g1) ==
        LET p2 == PlayerBet(player, amount)
        IN Advanced([g1 EXCEPT !.players[i] = p2, !.pot = @ + p2.currentBet])
  IN IF g.pot >= g.minBet * POT_LIMIT_FACTOR
       THEN Rejected(g, "Pot limit reached. You must Show.")
     ELSE IF player.chips < minBet
       THEN IF amount # player.chips
              THEN Rejected(g, "You must go ShowDown or All-In")
              ELSE placed(g)
     ELSE IF amount < minBet \/ amount > maxBet
       THEN Rejected(g, "Invalid bet amount")
     ELSE placed([g EXCEPT !.currentBet = Max(g.currentBet, newSeenStake)])

\* the bet branch with the stake set from the amount as it is, blind or seen
BetActionStakeAsPaid(g, i, amount) ==
  LET player == g.players[i]
      requiredAmount == IF player.isBlind THEN g.currentBet \div 2 ELSE g.currentBet
      minBet == requiredAmount
      maxBet == requiredAmount * 2
      placed(g1) ==
        LET p2 == PlayerBet(player, amount)
        IN Advanced([g1 EXCEPT !.players[i] = p2, !.pot = @ + p2.currentBet])
  IN IF g.pot >= g.minBet * POT_LIMIT_FACTOR
       THEN Rejected(g, "Pot limit reached. You must Show.")
     ELSE IF player.chips < minBet
       THEN IF amount # player.chips
              THEN Rejected(g, "You must go ShowDown or All-In")
              ELSE placed(g)
     ELSE IF amount # minBet /\ amount # maxBet
       THEN Rejected(g, "Invalid bet amount")
     ELSE placed([g EXCEPT !.currentBet = Max(g.currentBet, amount)])

\* the bet branch refusing a bet only once the pot is above the limit
BetActionAbovePotLimit(g, i, amount) ==
  LET player == g.players[i]
      requiredAmount == IF player.isBlind THEN g.currentBet \div 2 ELSE g.currentBet
      minBet == requiredAmount
      maxBet == requiredAmount * 2
      newSeenStake == IF player.isBlind THEN amount * 2 ELSE amount
      placed(g1) ==
        LET p2 == PlayerBet(player, amount)
        IN Advanced([g1 EXCEPT !.players[i] = p2, !.pot = @ + p2.currentBet])
  IN IF g.pot > g.minBet * POT_LIMIT_FACTOR
       THEN Rejected(g, "Pot limit reached. You must Show.")
     ELSE IF player.chips < minBet
       THEN IF amount # player.chips
              THEN Rejected(g, "You must go ShowDown or All-In")
              ELSE placed(g)
     ELSE IF amount # minBet /\ amount # maxBet
       THEN Rejected(g, "Invalid bet amount")
     ELSE placed([g EXCEPT !.currentBet = Max(g.currentBet, newSeenStake)])

\* the bet / chaal branch of Game.playerAction for players[i]
BetAction(g, i, amount) ==
  LET player == g.players[i]
      requiredAmount == IF player.isBlind THEN g.currentBet \div 2 ELSE g.currentBet
      minBet == requiredAmount
      maxBet == requiredAmount * 2
      newSeenStake == IF player.isBlind THEN amount * 2 ELSE amount
      placed(g1) ==
        LET p2 == PlayerBet(player, amount)
        IN Advanced([g1 EXCEPT !.players[i] = p2, !.pot = @ + p2.currentBet])
  IN IF g.pot >= g.minBet * POT_LIMIT_FACTOR
       THEN Rejected(g, "Pot limit reached. You must Show.")
     ELSE IF player.chips < minBet
       THEN IF amount # player.chips
              THEN Rejected(g, "You must go ShowDown or All-In")
              ELSE placed(g)
     ELSE IF amount # minBet /\ amount # maxBet
       THEN Rejected(g, "Invalid bet amount")
     ELSE placed([g EXCEPT !.currentBet = Max(g.currentBet, newSeenStake)])

\* Game.playerAction(playerId, action, amount): the game after the call, the
\* returned {success, error}, and the exception that left the call, if any
playerAction(g, playerId, action, amount) ==
  LET i == IndexOfId(g.players, playerId)
  IN IF i = 0 THEN Rejected(g, "Not your turn")
     ELSE IF g.currentPlayerIndex >= Len(g.players)
       \* getCurrentPlayer() is undefined: reading .id throws
       THEN [g |-> g, success |-> FALSE, error |-> "", thrown |-> "TypeError"]
     ELSE IF g.players[g.currentPlayerIndex + 1].id # playerId
       THEN Rejected(g, "Not your turn")
     ELSE IF action \in {"fold", "pack"}
       THEN Advanced([g EXCEPT !.players[i] = PlayerFold(@)])
     ELSE IF action = "see"
       THEN [g |-> [g EXCEPT !.players[i] = PlayerSeeCards(@)],
             success |-> TRUE, error |-> "", thrown |-> ""]
     ELSE IF action \in {"bet", "chaal"}
       THEN BetAction(g, i, amount)
     ELSE Rejected(g, "Invalid action")

\* Game.checkWinner: the id of the only active player, NoId for null
checkWinner(g) ==
  LET activePlayers == getActivePlayers(g)
  IN IF Len(activePlayers) = 1 THEN activePlayers[1].id ELSE NoId

\* an end of round that credits the winner but leaves the dealer where it is
endGameSameDealer(g, winnerId) ==
  LET i == IndexOfId(g.players, winnerId)
      credited == IF i = 0 THEN g.players
                  ELSE [g.players EXCEPT ![i].chips = @ + g.pot]
  IN [g EXCEPT !.players = credited, !.gameStarted = FALSE]

\* Game.endGame(winner), winner given by id (NoId for null)
endGame(g, winnerId) ==
  LET i == IndexOfId(g.players, winnerId)
      credited == IF i = 0 THEN g.players
                  ELSE [g.players EXCEPT ![i].chips = @ + g.pot]
  IN [g EXCEPT !.players = credited, !.gameStarted = FALSE,
               !.dealerIndex = (g.dealerIndex + 1) % Len(g.players)]

(***************************************************************************)
(* server.js : the room registry and the socket handlers                   *)
(***************************************************************************)
FALLBACK_CHIPS == 1000

VARIABLES
  game,           \* the Game object stored in `games` for the room
  room,           \* "none": not created yet, "open": in `games`, "deleted"
  playerSockets,  \* socket.id -> playerId of the room (NoId: no entry)
  fatal,          \* the uncaught exception that ended the server process
  idle,           \* game-changing events handled outside a round (MaxIdle)
  joins,          \* how many players were seated (bounded by MaxJoins)
  rounds          \* how many rounds were started (bounded by MaxRounds)

gameVars == <<game, room, playerSockets, fatal, idle, joins, rounds>>

\* TeenPattiGame.sol, one on-chain room (the transactions are defined below)
VARIABLES
  contract,       \* rooms[roomId], rakeFee, totalRakeCollected, token balances
  timestamp,      \* block.timestamp of the latest block
  lastTx,         \* the latest settlement call that did not revert, and its transfers
  settlements     \* settlement transactions that succeeded so far

chainVars == <<contract, timestamp, lastTx, settlements>>

\* hands the shuffled deck can deal (Deck.reset, Deck.shuffle, Deck.deal): the
\* 52-card permutations are sampled by rotations of four disjoint hands
SampleHands ==
  << <<Card("A", "hearts"), Card("K", "hearts"), Card("Q", "hearts")>>,
     <<Card("9", "clubs"), Card("4", "spades"), Card("9", "diamonds")>>,
     <<Card("4", "diamonds"), Card("9", "hearts"), Card("9", "spades")>>,
     <<Card("7", "clubs"), Card("5", "diamonds"), Card("2", "spades")>> >>

\* the rotations explored: 1 deals a tie to the first two seats
DealRotations == {1, 3}

Deals(n) ==
  { [i \in 1..n |-> SampleHands[((i - 1 + k) % Len(SampleHands)) + 1]] :
      k \in DealRotations }

UsedIds ==
  {game.players[i].id : i \in 1..Len(game.players)}
    \cup {playerSockets[s] : s \in Sockets}

\* uuidv4(): an id nobody holds
FreshUuid == CHOOSE u \in Uuids : u \notin UsedIds

Running == fatal = ""

\* socket.on("createRoomWithBlockchain")
CreateRoomWithBlockchain(s, creator, maxPlayers, buyInTokens) ==
  /\ Running /\ room = "none" /\ UNCHANGED chainVars
  /\ LET tokens == IF buyInTokens > 0 THEN buyInTokens ELSE 0
         playerChips == IF tokens > 0 THEN tokens ELSE FALLBACK_CHIPS
         g == [NewGame EXCEPT !.maxPlayers = maxPlayers, !.buyInTokens = tokens]
     IN game' = addPlayer(g, Player(creator, playerChips, creator))
  /\ room' = "open"
  /\ playerSockets' = [playerSockets EXCEPT ![s] = creator]
  /\ joins' = joins + 1
  /\ UNCHANGED <<fatal, idle, rounds>>

\* socket.on("joinRoom"): the error emitted, "" when the player is seated
joinRoomError(g, r) ==
  IF r # "open" THEN "Room not found"
  ELSE IF Len(g.players) >= g.maxPlayers THEN "Room is full"
  ELSE IF g.gameStarted THEN "Game already in progress"
  ELSE ""

JoinRoom(s) ==
  /\ Running /\ UNCHANGED chainVars
  /\ IF joinRoomError(game, room) # "" THEN UNCHANGED gameVars
     ELSE /\ Uuids \ UsedIds # {} /\ joins < MaxJoins
          /\ game' = addPlayer(game, Player(FreshUuid, DEFAULT_CHIPS, NoId))
          /\ playerSockets' = [playerSockets EXCEPT ![s] = FreshUuid]
          /\ joins' = joins + 1
          /\ UNCHANGED <<room, fatal, idle, rounds>>

\* socket.on("joinRoomWithBlockchain"): the game after the handler
joinRoomWithBlockchain(g, player, buyInTokens) ==
  IF \E i \in 1..Len(g.players) : g.players[i].walletAddress = player
  THEN g
  ELSE LET playerChips == IF g.buyInTokens > 0 THEN g.buyInTokens
                          ELSE IF buyInTokens > 0 THEN buyInTokens
                          ELSE FALLBACK_CHIPS
       IN addPlayer(g, Player(player, playerChips, player))

JoinRoomWithBlockchain(s, player, buyInTokens) ==
  /\ Running /\ UNCHANGED chainVars
  /\ IF room # "open" THEN UNCHANGED gameVars
     ELSE /\ game' = joinRoomWithBlockchain(game, player, buyInTokens)
          \* existingPlayer.id and the new playerId are both the wallet address
          /\ playerSockets' = [playerSockets EXCEPT ![s] = player]
          /\ joins' = joins + (Len(game'.players) - Len(game.players))
          /\ joins' <= MaxJoins
          /\ UNCHANGED <<room, fatal, idle, rounds>>

\* socket.on("startGame")
StartGame(s, hands) ==
  /\ Running /\ UNCHANGED chainVars
  /\ playerSockets[s] # NoId /\ room = "open"
  /\ IF ~canStartGame(game) THEN UNCHANGED gameVars
     ELSE /\ rounds < MaxRounds
          /\ game' = startGame(game, hands)
          /\ rounds' = rounds + 1
          /\ UNCHANGED <<room, playerSockets, fatal, idle, joins>>

\* socket.on("seeCards"): the game after the handler
seeCards(g, playerId) ==
  LET i == IndexOfId(g.players, playerId)
  IN IF i = 0 THEN g ELSE [g EXCEPT !.players[i] = PlayerSeeCards(@)]

\* the budget of an event that leaves game g as g2 (or throws)
Budget(g, g2, thrown) ==
  IF ~g.gameStarted /\ (g2 # g \/ thrown # "")
  THEN idle < MaxIdle /\ idle' = idle + 1
  ELSE idle' = idle

SeeCards(s) ==
  /\ Running /\ UNCHANGED chainVars
  /\ playerSockets[s] # NoId /\ room = "open"
  /\ game' = seeCards(game, playerSockets[s])
  /\ Budget(game, game', "")
  /\ UNCHANGED <<room, playerSockets, fatal, joins, rounds>>

\* socket.on("playerAction"): game.playerAction, then the winner check. The
\* handler catches nothing: an exception thrown by playerAction leaves the
\* mutations made before it in place and ends the process.
onPlayerAction(g, playerId, action, amount) ==
  LET r == playerAction(g, playerId, action, amount)
      winner == checkWinner(r.g)
  IN IF r.thrown # "" THEN [g |-> r.g, thrown |-> r.thrown, ended |-> FALSE]
     ELSE IF ~r.success THEN [g |-> g, thrown |-> "", ended |-> FALSE]
     ELSE IF winner # NoId
       THEN [g |-> endGame(r.g, winner), thrown |-> "", ended |-> TRUE]
     ELSE [g |-> r.g, thrown |-> "", ended |-> FALSE]

PlayerActionEvt(s, action, amount) ==
  /\ Running /\ UNCHANGED chainVars
  /\ playerSockets[s] # NoId /\ room = "open"
  /\ action \in {"bet", "chaal"} => game.pot + amount <= MaxPot
  /\ LET r == onPlayerAction(game, playerSockets[s], action, amount)
     IN /\ game' = r.g
        /\ fatal' = r.thrown
        /\ Budget(game, r.g, r.thrown)
  /\ UNCHANGED <<room, playerSockets, joins, rounds>>

\* the winner loop with a tie going to the second of the two players
showWinnerTieToSecond(activePlayers) ==
  LET first == activePlayers[1]
      second == activePlayers[2]
  IN IF compareHands(first, second) = first.id THEN first.id ELSE second.id

\* socket.on("show"): the winner loop over the active players
showWinner(activePlayers) ==
  LET first == activePlayers[1]
      second == activePlayers[2]
  IN IF compareHands(first, second) = second.id THEN second.id ELSE first.id

onShow(g) ==
  LET activePlayers == getActivePlayers(g)
  IN IF Len(activePlayers) # 2
     THEN [g |-> g, error |-> "Need exactly 2 players for show", ended |-> FALSE]
     ELSE [g |-> endGame(g, showWinner(activePlayers)), error |-> "", ended |-> TRUE]

Show(s) ==
  /\ Running /\ UNCHANGED chainVars
  /\ playerSockets[s] # NoId /\ room = "open"
  /\ LET r == onShow(game)
     IN /\ game' = r.g
        /\ Budget(game, r.g, "")
  /\ UNCHANGED <<room, playerSockets, fatal, joins, rounds>>

\* handlePlayerDisconnect up to the registry cleanup: the game after the
\* removal and the round-end check
onDisconnect(g, playerId) ==
  LET g1 == removePlayer(g, playerId)
      winner == checkWinner(g1)
  IN IF g1.gameStarted /\ winner # NoId
     THEN [g |-> endGame(g1, winner), ended |-> TRUE]
     ELSE [g |-> g1, ended |-> FALSE]

\* the handler without the deletion of the room left empty
handlePlayerDisconnectKeepingRoom(s) ==
  /\ Running /\ UNCHANGED chainVars
  /\ playerSockets[s] # NoId /\ room = "open"
  /\ IF IndexOfId(game.players, playerSockets[s]) = 0 THEN UNCHANGED gameVars
     ELSE LET r == onDisconnect(game, playerSockets[s])
          IN /\ playerSockets' = [playerSockets EXCEPT ![s] = NoId]
             /\ room' = room /\ game' = r.g
             /\ UNCHANGED <<fatal, idle, joins, rounds>>

handlePlayerDisconnect(s) ==
  /\ Running /\ UNCHANGED chainVars
  /\ playerSockets[s] # NoId /\ room = "open"
  /\ IF IndexOfId(game.players, playerSockets[s]) = 0 THEN UNCHANGED gameVars
     ELSE LET r == onDisconnect(game, playerSockets[s])
          IN /\ playerSockets' = [playerSockets EXCEPT ![s] = NoId]
             /\ IF Len(r.g.players) = 0
                  THEN room' = "deleted" /\ game' = NewGame
                  ELSE room' = room /\ game' = r.g
             /\ UNCHANGED <<fatal, idle, joins, rounds>>

\* socket.on("leaveRoom")
LeaveRoom(s) == handlePlayerDisconnect(s)

\* socket.on("disconnect")
Disconnect(s) == handlePlayerDisconnect(s)

\* game.players.map(p => ({ id: p.id, chips: p.chips }))
realChipCounts(g) ==
  [i \in 1..Len(g.players) |-> [id |-> g.players[i].id, chips |-> g.players[i].chips]]

\* SettlementService.settleCashGame up to the contract call: the arguments of
\* the transaction it sends, and the error it returns without sending one
settlementCall(initialized, blockchainRoomId, playerChips) ==
  IF ~initialized
    THEN [sent |-> FALSE, error |-> "Settlement service not initialized",
          players |-> <<>>, finalChips |-> <<>>]
  ELSE IF blockchainRoomId = "" \/ Len(playerChips) = 0
    THEN [sent |-> FALSE, error |-> "Invalid input parameters",
          players |-> <<>>, finalChips |-> <<>>]
  ELSE IF \E i \in 1..Len(playerChips) :
            playerChips[i].id = "" \/ playerChips[i].chips < 0
    THEN [sent |-> FALSE, error |-> "Invalid chip amounts - must be positive integers",
          players |-> <<>>, finalChips |-> <<>>]
  ELSE [sent |-> TRUE, error |-> "",
        players |-> [i \in 1..Len(playerChips) |-> playerChips[i].id],
        finalChips |-> [i \in 1..Len(playerChips) |-> playerChips[i].chips]]

\* app.post("/api/settle-game"): the HTTP status of a refusal (0 when the
\* response is the settlement service's result) and the contract call issued
settleGame(g, r, body, initialized) ==
  LET refuse(status, error) ==
        [status |-> status, error |-> error,
         call |-> [sent |-> FALSE, error |-> error, players |-> <<>>, finalChips |-> <<>>]]
      real == realChipCounts(g)
      matches(submitted) ==
        \E i \in 1..Len(real) :
          \* find() returns the first entry with the submitted id
          /\ real[i].id = submitted.id
          /\ \A j \in 1..(i - 1) : real[j].id # submitted.id
          /\ real[i].chips = submitted.chips
  IN IF body.blockchainRoomId = ""
       THEN refuse(400, "Missing required fields: blockchainRoomId and playerChips")
     ELSE IF body.roomId = ""
       THEN refuse(400, "roomId is required for verification")
     ELSE IF r # "open"
       THEN refuse(404, "Game not found - cannot verify chip counts")
     ELSE IF Len(body.playerChips) # Len(real)
       THEN refuse(400, "Player count mismatch")
     ELSE IF ~(\A k \in 1..Len(body.playerChips) : matches(body.playerChips[k]))
       THEN refuse(400, "Chip counts do not match game state - possible manipulation attempt")
     ELSE IF ~initialized
       THEN refuse(503, "Settlement service not initialized. Check server logs.")
     ELSE [status |-> 0, error |-> "",
           call |-> settlementCall(initialized, body.blockchainRoomId, real)]

\* request bodies a client can post for the room: the true chip counts, the
\* same in another order, one player repeated in place of another, one player
\* left out, a stranger added, one chip count changed, and missing fields
Submissions(g) ==
  LET real == realChipCounts(g)
      n == Len(real)
  IN {real,
      [i \in 1..n |-> real[n + 1 - i]],
      [i \in 1..n |-> real[1]],
      SubSeq(real, 1, n - 1),
      Append(real, [id |-> "w9", chips |-> 0]),
      [i \in 1..n |-> IF i = 1 THEN [real[1] EXCEPT !.chips = @ + 1] ELSE real[i]]}

SettleRequests(g) ==
  {[roomId |-> "room", blockchainRoomId |-> "0xroom", playerChips |-> s] :
     s \in Submissions(g)}
    \cup {[roomId |-> "", blockchainRoomId |-> "0xroom", playerChips |-> realChipCounts(g)],
          [roomId |-> "room", blockchainRoomId |-> "", playerChips |-> realChipCounts(g)]}

\* the endpoint reads the game and writes nothing to it; the transaction it
\* sends is a TxSettleCashGame of the contract
SettleGame(body, initialized) ==
  /\ Running
  /\ settleGame(game, room, body, initialized).status \in {0, 400, 404, 503}
  /\ UNCHANGED <<gameVars, chainVars>>

GameInit ==
  /\ game = NewGame
  /\ room = "none"
  /\ playerSockets = [s \in Sockets |-> NoId]
  /\ fatal = ""
  /\ idle = 0
  /\ joins = 0
  /\ rounds = 0

GameNext ==
  \/ \E sw \in Creators, m \in 2..MaxSeats, b \in BuyInTokens :
       CreateRoomWithBlockchain(sw[1], sw[2], m, b)
  \/ \E s \in PlainSockets : JoinRoom(s)
  \/ \E sw \in WalletSessions, b \in BuyInTokens :
       JoinRoomWithBlockchain(sw[1], sw[2], b)
  \/ \E s \in Sockets : \E hands \in Deals(Len(game.players)) : StartGame(s, hands)
  \/ \E s \in Sockets : SeeCards(s)
  \/ \E s \in Sockets, a \in {"fold", "pack", "see"} : PlayerActionEvt(s, a, 0)
  \/ \E s \in Sockets, a \in {"bet", "chaal"}, amt \in Amounts :
       PlayerActionEvt(s, a, amt)
  \/ \E s \in Sockets : Show(s)
  \/ \E body \in SettleRequests(game), initialized \in BOOLEAN : SettleGame(body, initialized)
  \/ \E s \in Sockets : LeaveRoom(s)
  \/ \E s \in Sockets : Disconnect(s)

(***************************************************************************)
(* TeenPattiGame.sol : one on-chain room and the token balances            *)
(***************************************************************************)
\* uint256 public rakeFee = 500
INITIAL_RAKE_FEE == 500
\* require(_newRakeFee <= 1000)
MAX_RAKE_FEE == 1000
\* (pot * rakeFee) / 10000
BASIS_POINTS == 10000
\* uint256 public constant GAME_TIMEOUT = 1 hours
GAME_TIMEOUT == 3600
\* (balance * 1000) / 10000 in emergencyWithdraw
PENALTY_BPS == 1000

\* seconds between the blocks explored, and the last block time explored
BlockSeconds == 3600
MaxTime == 3600
\* tokens every account holds before the room is created
InitialTokens == 300
\* tokens the depositor of another room of the contract holds and pays in
OtherBuyIn == 250

OWNER == "owner"
TREASURY == "treasury"
GAME == "game"
ZERO_ADDRESS == "0x0"
Accounts == {"a1", "a2", "a3", "a4"}
\* the accounts explored in each role
RoomCreators == {"a1"}
Starters == {"a1", "a2", OWNER}
Leavers == {"a1", "a3"}
Callers == {OWNER, "a2"}
Bettors == {"a2", "a4"}
Withdrawers == {"a3"}
Winners == {"a1", "a3", "a4"}
\* a player of another room of the same contract
DEPOSITOR == "b1"
Holders == Accounts \cup {OWNER, TREASURY, GAME, DEPOSITOR}
\* createRoom arguments, placeBet amounts, updateRakeFee arguments
BuyIns == {0, 250, 400}
MaxPlayersArgs == {1, 2, 4}
BetAmounts == {250, 300}
RakeFees == {0, 500, 1001}
\* settleCashGame arguments: <<_players, _finalChips>>
SettleArgs ==
  { << <<"a1", "a2", "a3">>, <<5000, 3000, 2000>> >>,
    << <<"a1", "a2", "a3">>, <<2000, 6000, 2000>> >>,
    << <<"a1", "a2", "a3">>, <<3333, 3333, 3334>> >>,
    << <<"a1", "a2", "a3">>, <<4000, 4000, 2001>> >>,
    << <<"a1", "a2", "a3">>, <<0, 0, 0>> >>,
    << <<"a2", "a1">>, <<1, 2>> >>,
    << <<"a1", "a1">>, <<1, 1>> >>,
    << <<"a1", "a2">>, <<5000, 3000, 2000>> >>,
    << <<>>, <<>> >> }

RECURSIVE SumSeq(_)
SumSeq(s) == IF s = <<>> THEN 0 ELSE Head(s) + SumSeq(Tail(s))

\* struct Room before createRoom writes it (all storage zero)
EmptyRoom ==
  [creator |-> ZERO_ADDRESS, players |-> <<>>, buyIn |-> 0, pot |-> 0,
   maxPlayers |-> 0, state |-> "WAITING", winner |-> ZERO_ADDRESS,
   createdAt |-> 0, finishedAt |-> 0,
   playerBalances |-> [a \in Accounts |-> 0],
   hasJoined |-> [a \in Accounts |-> FALSE]]

\* the contract after its constructor; every account has approved the contract
NewContract ==
  [room |-> EmptyRoom, rakeFee |-> INITIAL_RAKE_FEE, totalRakeCollected |-> 0,
   balanceOf |-> [h \in Holders |->
                    IF h \in Accounts THEN InitialTokens
                    ELSE IF h = DEPOSITOR THEN OtherBuyIn ELSE 0]]

\* a reverted call: no state change, no transfer
Revert(c, error) == [c |-> c, error |-> error, transfers |-> <<>>]

\* token.transfer(to, amount) by the contract, one after the other; ok is
\* FALSE when the contract's balance does not cover one of them (ERC20 reverts)
RECURSIVE Pay(_, _)
Pay(balanceOf, transfers) ==
  IF transfers = <<>> THEN [ok |-> TRUE, balanceOf |-> balanceOf]
  ELSE LET t == Head(transfers)
       IN IF balanceOf[GAME] < t.amount THEN [ok |-> FALSE, balanceOf |-> balanceOf]
          ELSE Pay([balanceOf EXCEPT ![GAME] = @ - t.amount, ![t.to] = @ + t.amount],
                   Tail(transfers))

\* the call's state changes c2 with its transfers made, or the revert of all
Commit(c, c2, transfers) ==
  LET paid == Pay(c2.balanceOf, transfers)
  IN IF paid.ok
     THEN [c |-> [c2 EXCEPT !.balanceOf = paid.balanceOf], error |-> "",
           transfers |-> transfers]
     ELSE Revert(c, "ERC20InsufficientBalance")

\* token.transferFrom(sender, address(this), amount)
Deposit(balanceOf, sender, amount) ==
  [balanceOf EXCEPT ![sender] = @ - amount, ![GAME] = @ + amount]

\* createRoom(_buyIn, _maxPlayers); the room id hashed from sender, time and
\* prevrandao is taken to be unused
createRoom(c, sender, now, buyIn, maxPlayers) ==
  IF buyIn <= 0 THEN Revert(c, "Buy-in must be positive")
  ELSE IF ~(maxPlayers >= 2 /\ maxPlayers <= 6) THEN Revert(c, "Invalid max players")
  ELSE IF c.balanceOf[sender] < buyIn THEN Revert(c, "Insufficient token balance")
  ELSE [c |-> [c EXCEPT
                 !.room = [c.room EXCEPT
                    !.creator = sender, !.buyIn = buyIn, !.maxPlayers = maxPlayers,
                    !.state = "WAITING", !.createdAt = now,
                    !.players = Append(@, sender),
                    !.playerBalances[sender] = buyIn,
                    !.hasJoined[sender] = TRUE,
                    !.pot = buyIn],
                 !.balanceOf = Deposit(@, sender, buyIn)],
        error |-> "", transfers |-> <<>>]

\* joinRoom without its require(room.players.length < room.maxPlayers)
joinRoomOverFull(c, sender) ==
  LET rm == c.room
  IN IF rm.creator = ZERO_ADDRESS THEN Revert(c, "Room does not exist")
     ELSE IF rm.state # "WAITING" THEN Revert(c, "Room not accepting players")
     ELSE IF rm.hasJoined[sender] THEN Revert(c, "Already joined this room")
     ELSE IF c.balanceOf[sender] < rm.buyIn THEN Revert(c, "Insufficient token balance")
     ELSE [c |-> [c EXCEPT
                    !.room = [rm EXCEPT
                       !.players = Append(@, sender),
                       !.playerBalances[sender] = rm.buyIn,
                       !.hasJoined[sender] = TRUE,
                       !.pot = @ + rm.buyIn],
                    !.balanceOf = Deposit(@, sender, rm.buyIn)],
           error |-> "", transfers |-> <<>>]

\* joinRoom(_roomId)
joinRoom(c, sender) ==
  LET rm == c.room
  IN IF rm.creator = ZERO_ADDRESS THEN Revert(c, "Room does not exist")
     ELSE IF rm.state # "WAITING" THEN Revert(c, "Room not accepting players")
     ELSE IF rm.hasJoined[sender] THEN Revert(c, "Already joined this room")
     ELSE IF Len(rm.players) >= rm.maxPlayers THEN Revert(c, "Room is full")
     ELSE IF c.balanceOf[sender] < rm.buyIn THEN Revert(c, "Insufficient token balance")
     ELSE [c |-> [c EXCEPT
                    !.room = [rm EXCEPT
                       !.players = Append(@, sender),
                       !.playerBalances[sender] = rm.buyIn,
                       !.hasJoined[sender] = TRUE,
                       !.pot = @ + rm.buyIn],
                    !.balanceOf = Deposit(@, sender, rm.buyIn)],
           error |-> "", transfers |-> <<>>]

\* players[i] = players[length - 1]; players.pop() for the first i holding a
RemoveSwap(players, a) ==
  LET n == Len(players)
      i == CHOOSE k \in 1..n : players[k] = a /\ \A j \in 1..(k - 1) : players[j] # a
  IN IF \A k \in 1..n : players[k] # a THEN players
     ELSE SubSeq([players EXCEPT ![i] = players[n]], 1, n - 1)

\* leaveRoom(_roomId)
leaveRoom(c, sender) ==
  LET rm == c.room
      refund == rm.playerBalances[sender]
      left == [rm EXCEPT !.hasJoined[sender] = FALSE,
                           !.playerBalances[sender] = 0,
                           !.pot = @ - refund,
                           !.players = RemoveSwap(@, sender)]
      closed == IF Len(left.players) = 0 THEN [left EXCEPT !.state = "CANCELLED"]
                ELSE left
  IN IF ~rm.hasJoined[sender] THEN Revert(c, "Not in this room")
     ELSE IF rm.state # "WAITING" THEN Revert(c, "Game already started")
     ELSE IF refund <= 0 THEN Revert(c, "No balance to refund")
     ELSE Commit(c, [c EXCEPT !.room = closed],
                 << [to |-> sender, amount |-> refund] >>)

\* startGame(_roomId)
startGameOnChain(c, sender) ==
  LET rm == c.room
  IN IF rm.creator = ZERO_ADDRESS THEN Revert(c, "Room does not exist")
     ELSE IF ~(sender = rm.creator \/ sender = OWNER) THEN Revert(c, "Not authorized")
     ELSE IF rm.state # "WAITING" THEN Revert(c, "Game already started")
     ELSE IF Len(rm.players) < 2 THEN Revert(c, "Need at least 2 players")
     ELSE [c |-> [c EXCEPT !.room.state = "ACTIVE"], error |-> "", transfers |-> <<>>]

\* placeBet(_roomId, _player, _amount)
placeBet(c, sender, player, amount) ==
  LET rm == c.room
  IN IF sender # OWNER THEN Revert(c, "Only backend can place bets")
     ELSE IF rm.state # "ACTIVE" THEN Revert(c, "Game not active")
     ELSE IF ~rm.hasJoined[player] THEN Revert(c, "Player not in room")
     ELSE IF rm.playerBalances[player] < amount
       THEN Revert(c, "Insufficient player balance")
     ELSE [c |-> [c EXCEPT !.room.playerBalances[player] = @ - amount,
                           !.room.pot = @ + amount],
           error |-> "", transfers |-> <<>>]

\* the rake rounded up instead of down
RakeRoundedUp(pot, rakeFee) == (pot * rakeFee + BASIS_POINTS - 1) \div BASIS_POINTS

\* uint256 rake = (pot * rakeFee) / BASIS_POINTS
Rake(pot, rakeFee) == (pot * rakeFee) \div BASIS_POINTS

\* the transfers to the treasury: if (rake > 0) token.transfer(treasury, rake)
RakeTransfers(rake) ==
  IF rake > 0 THEN << [to |-> TREASURY, amount |-> rake] >> ELSE <<>>

\* declareWinner(_roomId, _winner); the owner check is commented out
declareWinner(c, sender, now, winner) ==
  LET rm == c.room
      pot == rm.pot
      rake == Rake(pot, c.rakeFee)
      winnerAmount == pot - rake
      c2 == [c EXCEPT !.room.state = "FINISHED", !.room.winner = winner,
                      !.room.finishedAt = now, !.room.pot = 0,
                      !.totalRakeCollected = @ + rake]
  IN IF rm.state # "ACTIVE" THEN Revert(c, "Game not active")
     ELSE IF ~rm.hasJoined[winner] THEN Revert(c, "Winner not in room")
     ELSE IF pot <= 0 THEN Revert(c, "No pot to distribute")
     ELSE Commit(c, c2,
                 << [to |-> winner, amount |-> winnerAmount] >> \o RakeTransfers(rake))

\* the scan with >= in place of >: the last of the highest entries is kept
RECURSIVE TopFromLast(_, _, _)
TopFromLast(finalChips, i, top) ==
  IF i > Len(finalChips) THEN top
  ELSE TopFromLast(finalChips, i + 1,
                   IF finalChips[i] >= finalChips[top] THEN i ELSE top)

\* the loop's topPlayer: the index kept after entries i..length are visited
RECURSIVE TopFrom(_, _, _)
TopFrom(finalChips, i, top) ==
  IF i > Len(finalChips) THEN top
  ELSE TopFrom(finalChips, i + 1, IF finalChips[i] > finalChips[top] THEN i ELSE top)

\* the share rounded up instead of down
PayoutRoundedUp(distributablePot, chips, totalChips) ==
  (distributablePot * chips + totalChips - 1) \div totalChips

\* uint256 payout = (distributablePot * _finalChips[i]) / totalChips
Payout(distributablePot, chips, totalChips) ==
  (distributablePot * chips) \div totalChips

\* the nonzero entries of a list of transfers, in order
RECURSIVE NonZero(_)
NonZero(transfers) ==
  IF transfers = <<>> THEN <<>>
  ELSE IF Head(transfers).amount > 0
    THEN <<Head(transfers)>> \o NonZero(Tail(transfers))
  ELSE NonZero(Tail(transfers))

\* settleCashGame without its loop of require(room.hasJoined[_players[i]])
settleCashGameAnyPlayer(c, sender, now, players, finalChips) ==
  LET rm == c.room
      pot == rm.pot
      totalChips == SumSeq(finalChips)
      rake == Rake(pot, c.rakeFee)
      distributablePot == pot - rake
      payouts == [i \in 1..Len(players) |->
                    Payout(distributablePot, finalChips[i], totalChips)]
      totalDistributed == SumSeq(payouts)
      topPlayer == players[TopFrom(finalChips, 1, 1)]
      dust == distributablePot - totalDistributed
      transfers ==
        NonZero([i \in 1..Len(players) |-> [to |-> players[i], amount |-> payouts[i]]])
          \o NonZero(<< [to |-> topPlayer, amount |-> dust] >>)
          \o RakeTransfers(rake)
      c2 == [c EXCEPT !.room.state = "FINISHED", !.room.winner = topPlayer,
                      !.room.finishedAt = now, !.room.pot = 0,
                      !.totalRakeCollected = @ + rake]
  IN IF sender # OWNER THEN Revert(c, "OwnableUnauthorizedAccount")
     ELSE IF rm.state # "ACTIVE" THEN Revert(c, "Game not active")
     ELSE IF Len(players) # Len(finalChips) THEN Revert(c, "Array length mismatch")
     ELSE IF Len(players) = 0 THEN Revert(c, "No players provided")
     ELSE IF pot <= 0 THEN Revert(c, "No pot to distribute")
     ELSE IF totalChips <= 0 THEN Revert(c, "Total chips must be greater than zero")
     ELSE Commit(c, c2, transfers)

\* settleCashGame(_roomId, _players, _finalChips), onlyOwner
settleCashGame(c, sender, now, players, finalChips) ==
  LET rm == c.room
      pot == rm.pot
      totalChips == SumSeq(finalChips)
      rake == Rake(pot, c.rakeFee)
      distributablePot == pot - rake
      payouts == [i \in 1..Len(players) |->
                    Payout(distributablePot, finalChips[i], totalChips)]
      totalDistributed == SumSeq(payouts)
      topPlayer == players[TopFrom(finalChips, 1, 1)]
      dust == distributablePot - totalDistributed
      transfers ==
        NonZero([i \in 1..Len(players) |-> [to |-> players[i], amount |-> payouts[i]]])
          \o NonZero(<< [to |-> topPlayer, amount |-> dust] >>)
          \o RakeTransfers(rake)
      c2 == [c EXCEPT !.room.state = "FINISHED", !.room.winner = topPlayer,
                      !.room.finishedAt = now, !.room.pot = 0,
                      !.totalRakeCollected = @ + rake]
  IN IF sender # OWNER THEN Revert(c, "OwnableUnauthorizedAccount")
     ELSE IF rm.state # "ACTIVE" THEN Revert(c, "Game not active")
     ELSE IF Len(players) # Len(finalChips) THEN Revert(c, "Array length mismatch")
     ELSE IF Len(players) = 0 THEN Revert(c, "No players provided")
     ELSE IF pot <= 0 THEN Revert(c, "No pot to distribute")
     ELSE IF totalChips <= 0 THEN Revert(c, "Total chips must be greater than zero")
     ELSE IF \E i \in 1..Len(players) : ~rm.hasJoined[players[i]]
       THEN Revert(c, "Player not in room")
     ELSE Commit(c, c2, transfers)

\* handleTimeout without its require(room.state == GameState.ACTIVE)
handleTimeoutAnyState(c, now) ==
  LET rm == c.room
      refunds == NonZero([i \in 1..Len(rm.players) |->
                            [to |-> rm.players[i], amount |-> rm.buyIn]])
  IN IF now < rm.createdAt + GAME_TIMEOUT THEN Revert(c, "Timeout not reached")
     ELSE Commit(c, [c EXCEPT !.room.state = "CANCELLED", !.room.pot = 0], refunds)

\* handleTimeout(_roomId)
handleTimeout(c, now) ==
  LET rm == c.room
      refunds == NonZero([i \in 1..Len(rm.players) |->
                            [to |-> rm.players[i], amount |-> rm.buyIn]])
  IN IF rm.state # "ACTIVE" THEN Revert(c, "Game not active")
     ELSE IF now < rm.createdAt + GAME_TIMEOUT THEN Revert(c, "Timeout not reached")
     ELSE Commit(c, [c EXCEPT !.room.state = "CANCELLED", !.room.pot = 0], refunds)

\* emergencyWithdraw(_roomId)
emergencyWithdraw(c, sender) ==
  LET rm == c.room
      balance == rm.playerBalances[sender]
      penalty == (balance * PENALTY_BPS) \div BASIS_POINTS
      withdrawAmount == balance - penalty
  IN IF ~rm.hasJoined[sender] THEN Revert(c, "Not in this room")
     ELSE IF rm.state # "ACTIVE" THEN Revert(c, "Game not active")
     ELSE IF balance <= 0 THEN Revert(c, "No balance to withdraw")
     ELSE Commit(c, [c EXCEPT !.room.playerBalances[sender] = 0,
                              !.room.hasJoined[sender] = FALSE,
                              !.room.pot = @ + penalty],
                 << [to |-> sender, amount |-> withdrawAmount] >>)

\* updateRakeFee(_newRakeFee), onlyOwner
updateRakeFee(c, sender, newRakeFee) ==
  IF sender # OWNER THEN Revert(c, "OwnableUnauthorizedAccount")
  ELSE IF newRakeFee > MAX_RAKE_FEE THEN Revert(c, "Rake fee too high")
  ELSE [c |-> [c EXCEPT !.rakeFee = newRakeFee], error |-> "", transfers |-> <<>>]

\* the record kept of a transaction and its outcome
Tx(fn, sender, account, amount, players, finalChips, r) ==
  [fn |-> fn, sender |-> sender, account |-> account, amount |-> amount,
   players |-> players, finalChips |-> finalChips,
   error |-> r.error, transfers |-> r.transfers]

NoTx ==
  [fn |-> "", sender |-> ZERO_ADDRESS, account |-> ZERO_ADDRESS, amount |-> 0,
   players |-> <<>>, finalChips |-> <<>>, error |-> "", transfers |-> <<>>]

\* the calls that pay the pot out
SettlementCalls == {"settleCashGame", "declareWinner", "handleTimeout"}

\* a mined transaction: its state changes, or none at all when it reverted
Mined(r, tx) ==
  /\ contract' = r.c
  /\ lastTx' = IF tx.fn \in SettlementCalls /\ r.error = "" THEN tx ELSE lastTx
  /\ settlements' = IF tx.fn \in SettlementCalls /\ r.error = ""
                    THEN settlements + 1 ELSE settlements
  /\ UNCHANGED <<timestamp, gameVars>>

TxCreateRoom(sender, buyIn, maxPlayers) ==
  /\ contract.room.creator = ZERO_ADDRESS
  /\ Mined(createRoom(contract, sender, timestamp, buyIn, maxPlayers),
           Tx("createRoom", sender, ZERO_ADDRESS, buyIn, <<>>, <<>>,
              createRoom(contract, sender, timestamp, buyIn, maxPlayers)))

TxJoinRoom(sender) ==
  Mined(joinRoom(contract, sender),
        Tx("joinRoom", sender, ZERO_ADDRESS, 0, <<>>, <<>>, joinRoom(contract, sender)))

TxLeaveRoom(sender) ==
  Mined(leaveRoom(contract, sender),
        Tx("leaveRoom", sender, ZERO_ADDRESS, 0, <<>>, <<>>, leaveRoom(contract, sender)))

TxStartGame(sender) ==
  Mined(startGameOnChain(contract, sender),
        Tx("startGame", sender, ZERO_ADDRESS, 0, <<>>, <<>>,
           startGameOnChain(contract, sender)))

TxPlaceBet(sender, player, amount) ==
  Mined(placeBet(contract, sender, player, amount),
        Tx("placeBet", sender, player, amount, <<>>, <<>>,
           placeBet(contract, sender, player, amount)))

TxDeclareWinner(sender, winner) ==
  Mined(declareWinner(contract, sender, timestamp, winner),
        Tx("declareWinner", sender, winner, 0, <<>>, <<>>,
           declareWinner(contract, sender, timestamp, winner)))

TxSettleCashGame(sender, players, finalChips) ==
  Mined(settleCashGame(contract, sender, timestamp, players, finalChips),
        Tx("settleCashGame", sender, ZERO_ADDRESS, 0, players, finalChips,
           settleCashGame(contract, sender, timestamp, players, finalChips)))

TxHandleTimeout(sender) ==
  Mined(handleTimeout(contract, timestamp),
        Tx("handleTimeout", sender, ZERO_ADDRESS, 0, <<>>, <<>>,
           handleTimeout(contract, timestamp)))

TxEmergencyWithdraw(sender) ==
  Mined(emergencyWithdraw(contract, sender),
        Tx("emergencyWithdraw", sender, ZERO_ADDRESS, 0, <<>>, <<>>,
           emergencyWithdraw(contract, sender)))

TxUpdateRakeFee(sender, newRakeFee) ==
  Mined(updateRakeFee(contract, sender, newRakeFee),
        Tx("updateRakeFee", sender, ZERO_ADDRESS, newRakeFee, <<>>, <<>>,
           updateRakeFee(contract, sender, newRakeFee)))

\* createRoom / joinRoom of another room of the contract: its buy-in arrives
OtherRoomDeposit ==
  /\ contract.balanceOf[DEPOSITOR] >= OtherBuyIn
  /\ contract' = [contract EXCEPT !.balanceOf = Deposit(@, DEPOSITOR, OtherBuyIn)]
  /\ UNCHANGED <<timestamp, lastTx, settlements, gameVars>>

\* the next block
Tick ==
  /\ timestamp < MaxTime
  /\ timestamp' = timestamp + BlockSeconds
  /\ UNCHANGED <<contract, lastTx, settlements, gameVars>>

ChainInit ==
  /\ contract = NewContract
  /\ timestamp = 0
  /\ lastTx = NoTx
  /\ settlements = 0

ChainNext ==
  \/ \E sender \in RoomCreators, buyIn \in BuyIns, maxPlayers \in MaxPlayersArgs :
       TxCreateRoom(sender, buyIn, maxPlayers)
  \/ \E sender \in Accounts : TxJoinRoom(sender)
  \/ \E sender \in Leavers : TxLeaveRoom(sender)
  \/ \E sender \in Starters : TxStartGame(sender)
  \/ \E sender \in Callers, player \in Bettors, amount \in BetAmounts :
       TxPlaceBet(sender, player, amount)
  \/ \E sender \in Callers, winner \in Winners : TxDeclareWinner(sender, winner)
  \/ \E sender \in Callers, args \in SettleArgs :
       TxSettleCashGame(sender, args[1], args[2])
  \/ \E sender \in Callers : TxHandleTimeout(sender)
  \/ \E sender \in Withdrawers : TxEmergencyWithdraw(sender)
  \/ \E sender \in Callers, newRakeFee \in RakeFees : TxUpdateRakeFee(sender, newRakeFee)
  \/ OtherRoomDeposit
  \/ Tick

vars == <<gameVars, chainVars>>

Init == GameInit /\ ChainInit
Next == GameNext

\* the server: its socket handlers and its settlement endpoint
Spec == Init /\ [][Next]_vars

\* the contract: the transactions of one room
ChainSpec == Init /\ [][ChainNext]_vars

(***************************************************************************)
(* A high-stakes round: w1 creates a wallet room with buy-in HighBuyIn, w2 *)
(* joins it, the round is started, and each bet doubles the required       *)
(* amount until Game.playerAction refuses it at the pot limit.             *)
(***************************************************************************)
HighStakesTable ==
  LET g0 == addPlayer([NewGame EXCEPT !.maxPlayers = MIN_PLAYERS,
                                      !.buyInTokens = HighBuyIn],
                      Player("w1", HighBuyIn, "w1"))
  IN joinRoomWithBlockchain(g0, "w2", HighBuyIn)

HighStakesInit ==
  /\ game \in {startGame(HighStakesTable, hands) : hands \in Deals(MIN_PLAYERS)}
  /\ room = "open"
  /\ playerSockets = [s \in Sockets |->
                        IF s = "s1" THEN "w1" ELSE IF s = "s2" THEN "w2" ELSE NoId]
  /\ fatal = ""
  /\ idle = 0
  /\ joins = MIN_PLAYERS
  /\ rounds = 1

\* socket.on("playerAction") with a bet of twice the amount required of the
\* player whose turn it is
RaiseEvt(s, action) ==
  /\ Running /\ UNCHANGED chainVars
  /\ playerSockets[s] # NoId /\ room = "open"
  /\ game.currentPlayerIndex < Len(game.players)
  /\ LET p == game.players[game.currentPlayerIndex + 1]
         requiredAmount == IF p.isBlind THEN game.currentBet \div 2
                           ELSE game.currentBet
         r == onPlayerAction(game, playerSockets[s], action, 2 * requiredAmount)
     IN /\ game' = r.g
        /\ fatal' = r.thrown
  /\ UNCHANGED <<room, playerSockets, idle, joins, rounds>>

HighStakesNext ==
  \/ \E s \in Sockets : SeeCards(s)
  \/ \E s \in Sockets, a \in {"bet", "chaal"} : RaiseEvt(s, a)

HighStakesStart == HighStakesInit /\ ChainInit

HighStakesSpec == HighStakesStart /\ [][HighStakesNext]_vars

(***************************************************************************)
(* Tables dealt from the Deck: wallet rooms of 1..MaxTable seated players, *)
(* started, seen, folded and shown, and started again.                     *)
(***************************************************************************)
\* Deck.reset before the shuffle: for suit of SUITS, for rank of RANKS
FullDeck ==
  [k \in 1..(Len(SUITS) * Len(RANKS)) |->
     Card(RANKS[((k - 1) % Len(RANKS)) + 1], SUITS[((k - 1) \div Len(RANKS)) + 1])]

\* outcomes of Deck.shuffle explored: the deck cut at these positions
ShuffleCuts == {0, 5, 26}

\* the decks after those shuffles
ShuffledDecks ==
  [cut \in ShuffleCuts |->
     [k \in 1..Len(FullDeck) |-> FullDeck[((k - 1 + cut) % Len(FullDeck)) + 1]]]

\* Deck.shuffle: one of the permutations Math.random can produce
Shuffled(cut) == ShuffledDecks[cut]

\* the k-th deck.deal() after a reset: cards.pop() takes the tail
Dealt(deck, k) == deck[Len(deck) + 1 - k]

\* three rounds of one card to each of n players in seating order
DeckDeal(deck, n) ==
  [i \in 1..n |-> <<Dealt(deck, i), Dealt(deck, n + i), Dealt(deck, 2 * n + i)>>]

TableIds == <<"w1", "w2", "w3", "w4", "w5", "w6", "w7">>

\* a wallet room of n players, all just seated with the room's buy-in
RECURSIVE FreshTable(_)
FreshTable(n) ==
  IF n = 0 THEN [NewGame EXCEPT !.maxPlayers = MaxTable, !.buyInTokens = HighBuyIn]
  ELSE addPlayer(FreshTable(n - 1), Player(TableIds[n], HighBuyIn, TableIds[n]))

TableInit ==
  /\ \E n \in 1..MaxTable :
       /\ game = FreshTable(n)
       /\ joins = n
       /\ playerSockets =
            [s \in Sockets |->
               IF s = "s1" THEN "w1"
               ELSE IF s = "s2" /\ n >= 2 THEN "w2"
               ELSE IF s = "s3" /\ n >= 3 THEN "w3"
               ELSE NoId]
  /\ room = "open"
  /\ fatal = ""
  /\ idle = 0
  /\ rounds = 0

\* socket.on("startGame"), the deck shuffled to Shuffled(cut)
DeckStartGame(s, cut) ==
  /\ Running /\ UNCHANGED chainVars
  /\ playerSockets[s] # NoId /\ room = "open"
  /\ IF ~canStartGame(game) THEN UNCHANGED gameVars
     ELSE /\ rounds < MaxTableRounds
          /\ game' = startGame(game, DeckDeal(Shuffled(cut), Len(game.players)))
          /\ rounds' = rounds + 1
          /\ UNCHANGED <<room, playerSockets, fatal, idle, joins>>

TableNext ==
  \/ \E s \in Sockets, cut \in ShuffleCuts : DeckStartGame(s, cut)
  \/ \E s \in Sockets : SeeCards(s)
  \/ \E s \in Sockets, a \in {"fold", "pack"} : PlayerActionEvt(s, a, 0)
  \/ \E s \in Sockets : Show(s)

TableStart == TableInit /\ ChainInit

TableSpec == TableStart /\ [][TableNext]_vars

(***************************************************************************)
(* Showdowns: a round of two (w1, w2) in which the shuffle has dealt the   *)
(* two players a pair of the hands below; the players see and show.        *)
(***************************************************************************)
Hand(r1, s1, r2, s2, r3, s3) == <<Card(r1, s1), Card(r2, s2), Card(r3, s3)>>

\* hands of every category, in the order the cards are dealt in
HandSamples ==
  << Hand("2", "hearts", "A", "hearts", "3", "hearts"),
     Hand("A", "spades", "2", "diamonds", "3", "clubs"),
     Hand("2", "clubs", "3", "clubs", "4", "clubs"),
     Hand("4", "diamonds", "2", "spades", "3", "hearts"),
     Hand("K", "diamonds", "A", "diamonds", "Q", "diamonds"),
     Hand("Q", "hearts", "K", "clubs", "J", "spades"),
     Hand("7", "spades", "7", "hearts", "7", "diamonds"),
     Hand("9", "spades", "9", "hearts", "9", "diamonds"),
     Hand("8", "spades", "K", "spades", "4", "spades"),
     Hand("J", "diamonds", "6", "diamonds", "3", "diamonds"),
     Hand("K", "hearts", "5", "clubs", "K", "diamonds"),
     Hand("K", "spades", "K", "clubs", "5", "hearts"),
     Hand("K", "hearts", "K", "spades", "2", "clubs"),
     Hand("5", "spades", "K", "diamonds", "5", "diamonds"),
     Hand("A", "clubs", "5", "hearts", "5", "clubs"),
     Hand("J", "clubs", "9", "clubs", "A", "diamonds"),
     Hand("9", "diamonds", "J", "hearts", "A", "clubs"),
     Hand("Q", "spades", "8", "diamonds", "3", "spades") >>

\* the cards of a hand
CardsOf(hand) == {hand[k] : k \in 1..Len(hand)}

\* the pairs of hands one deck can deal
HandPairs ==
  {<<a, b>> \in (1..Len(HandSamples)) \X (1..Len(HandSamples)) :
     CardsOf(HandSamples[a]) \cap CardsOf(HandSamples[b]) = {}}

HandInit ==
  /\ \E ab \in HandPairs :
       game = startGame(FreshTable(MIN_PLAYERS),
                        <<HandSamples[ab[1]], HandSamples[ab[2]]>>)
  /\ room = "open"
  /\ playerSockets = [s \in Sockets |->
                        IF s = "s1" THEN "w1" ELSE IF s = "s2" THEN "w2" ELSE NoId]
  /\ fatal = ""
  /\ idle = 0
  /\ joins = MIN_PLAYERS
  /\ rounds = 1

HandNext ==
  \/ \E s \in Sockets : SeeCards(s)
  \/ \E s \in Sockets : Show(s)

HandStart == HandInit /\ ChainInit

HandSpec == HandStart /\ [][HandNext]_vars

(***************************************************************************)
(* Properties of the round state machine (checked under Spec)              *)
(***************************************************************************)
RECURSIVE SumTotalBet(_)
SumTotalBet(players) ==
  IF players = <<>> THEN 0
  ELSE Head(players).totalBet + SumTotalBet(Tail(players))

\* a round is in progress on a live server
RoundActive == Running /\ room = "open" /\ game.gameStarted

\* C1: in every reachable state in which a round is active, after any sequence
\* of start, see, bet/chaal, fold/pack, join and leave/disconnect, the pot equals
\* the sum of totalBet over the players currently in the room.
C1_PotIsSumOfTotalBets ==
  RoundActive => game.pot = SumTotalBet(game.players)

\* the seat (1-based) of the only non-folded player other than seat i, else 0
OtherActiveSeat(g, i) ==
  LET others == {j \in 1..Len(g.players) :
                   j # i /\ g.players[j].isActive /\ ~g.players[j].isFolded}
  IN IF Cardinality(others) = 1 THEN CHOOSE j \in others : TRUE ELSE 0

\* C2: in an active round, when the current-turn player folds (fold or pack)
\* and exactly one non-folded player is left, the round ends and that player's
\* chips increase by the full pot (2-player round or last fold of a chain).
C2_FoldToOneEndsRound ==
  \A s \in Sockets, a \in {"fold", "pack"} :
    LET i == game.currentPlayerIndex + 1
        w == OtherActiveSeat(game, i)
        r == onPlayerAction(game, playerSockets[s], a, 0)
    IN (/\ RoundActive
        /\ i <= Len(game.players)
        /\ game.players[i].id = playerSockets[s]
        /\ ~game.players[i].isFolded
        /\ w # 0)
       => /\ r.thrown = ""
          /\ ~r.g.gameStarted
          /\ r.g.players[w].chips = game.players[w].chips + game.pot

\* C3: whenever a round is active, currentPlayerIndex is a valid index into the
\* players list and the player at that index is not folded, also after players
\* leave or disconnect mid-round.
C3_TurnPointsAtNonFolded ==
  RoundActive =>
    /\ game.currentPlayerIndex < Len(game.players)
    /\ ~game.players[game.currentPlayerIndex + 1].isFolded

\* C4: every playerAction call in an active round either is rejected and leaves
\* the whole game unchanged, or is applied in full: no call changes the game and
\* then fails, and an accepted bet of amount a lowers the bettor's chips by
\* exactly a and raises the pot by exactly a.
C4_ActionRejectedOrAppliedInFull ==
  \A s \in Sockets, a \in {"fold", "pack", "see", "bet", "chaal"}, amt \in Amounts :
    LET id == playerSockets[s]
        i == IndexOfId(game.players, id)
        r == playerAction(game, id, a, amt)
    IN (RoundActive /\ id # NoId) =>
         /\ (r.thrown # "" \/ ~r.success) => r.g = game
         /\ (r.thrown = "" /\ r.success /\ a \in {"bet", "chaal"}) =>
              /\ r.g.players[i].chips = game.players[i].chips - amt
              /\ r.g.pot = game.pot + amt

\* C5: no sequence of externally submitted operations makes nextPlayer run
\* with fewer than 2 non-folded players: the errors 'Cannot advance turn' and
\* 'No active non-folded players found' are never thrown in a round.
C5_NoFatalTurnAdvance ==
  game.gameStarted =>
    fatal \notin {"Cannot advance turn", "No active non-folded players found"}

\* the submitted chip counts name each player of the room exactly once, with
\* that player's chips
ExactSubmission(playerChips, g) ==
  /\ Len(playerChips) = Len(g.players)
  /\ \A i \in 1..Len(g.players) :
       Cardinality({k \in 1..Len(playerChips) :
                      playerChips[k].id = g.players[i].id}) = 1
  /\ \A k \in 1..Len(playerChips) :
       \E i \in 1..Len(g.players) :
         /\ g.players[i].id = playerChips[k].id
         /\ g.players[i].chips = playerChips[k].chips

\* C7: the settlement endpoint issues an on-chain settlement call only if the
\* submitted chip counts name exactly the players of the in-memory room (none
\* missing, none extra, none repeated) with equal chip values; otherwise it
\* answers with a refusal and issues no call.
C7_CallOnlyOnExactSubmission ==
  \A body \in SettleRequests(game), initialized \in BOOLEAN :
    LET r == settleGame(game, room, body, initialized)
    IN Running =>
         /\ r.call.sent => ExactSubmission(body.playerChips, game)
         /\ ~ExactSubmission(body.playerChips, game) => r.status \in {400, 404, 503}

(***************************************************************************)
(* Properties of the custody contract (checked under ChainSpec)            *)
(***************************************************************************)
RECURSIVE SumAmounts(_)
SumAmounts(transfers) ==
  IF transfers = <<>> THEN 0
  ELSE Head(transfers).amount + SumAmounts(Tail(transfers))

\* what account a holds more after the step than before it
Received(a) == contract'.balanceOf[a] - contract.balanceOf[a]

\* what the accounts of S hold more after the step than before it, in all
RECURSIVE ReceivedBy(_)
ReceivedBy(S) ==
  IF S = {} THEN 0
  ELSE LET a == CHOOSE x \in S : TRUE
       IN Received(a) + ReceivedBy(S \ {a})

\* a settlement attempt in the present state changes nothing and moves no token
Refused(r) == r.c = contract /\ r.transfers = <<>>

FloorShare(D, c, T) == (D * c) \div T

\* floor(P * r / 10000), the rake the claim states
FloorRake(P, r) == (P * r) \div 10000

\* C8: a successful settleCashGame on pot P, rake rate r and final chips c with
\* total T > 0 takes rake = floor(P*r/10000), pays every listed player at least
\* floor(D*c[i]/T) with D = P - rake, pays D to the players in all (payouts and
\* dust) and the rake to the treasury, so that exactly P leaves the contract,
\* and the pot becomes 0; chips [5000,3000,2000] with P = 1000 and r = 500 give
\* rake 50 and payouts [475,285,190].
C8_SettlementArithmetic ==
  [][(settlements' = settlements + 1 /\ lastTx'.fn = "settleCashGame") =>
         LET args == <<lastTx'.players, lastTx'.finalChips>>
             P == contract.room.pot
             c == args[2]
             T == SumSeq(c)
             rake == FloorRake(P, contract.rakeFee)
             D == P - rake
             share(a) == SumSeq([i \in 1..Len(c) |->
                                   IF args[1][i] = a THEN FloorShare(D, c[i], T) ELSE 0])
         IN /\ T > 0
            /\ Received(TREASURY) = rake
            /\ contract'.totalRakeCollected = contract.totalRakeCollected + rake
            /\ \A a \in Accounts : Received(a) >= share(a)
            /\ ReceivedBy(Accounts) = D
            /\ Received(GAME) = 0 - P
            /\ SumAmounts(lastTx'.transfers) = P
            /\ contract'.room.pot = 0
            /\ (P = 1000 /\ contract.rakeFee = 500 /\ c = <<5000, 3000, 2000>>) =>
                 lastTx'.transfers =
                   << [to |-> "a1", amount |-> 475], [to |-> "a2", amount |-> 285],
                      [to |-> "a3", amount |-> 190], [to |-> TREASURY, amount |-> 50] >>
    ]_vars

\* the example settlement has been paid: 475 + 285 + 190 + 50 = 1000
C8_Witness ==
  /\ lastTx.fn = "settleCashGame"
  /\ lastTx.finalChips = <<5000, 3000, 2000>>
  /\ SumAmounts(lastTx.transfers) = 1000
  /\ contract.totalRakeCollected = 50
  /\ contract.room.pot = 0

\* the first index holding the highest chip count
FirstHighest(c) ==
  CHOOSE i \in 1..Len(c) :
    /\ \A j \in 1..Len(c) : c[j] <= c[i]
    /\ \A j \in 1..(i - 1) : c[j] < c[i]

\* C9: in settleCashGame the whole dust and the recorded room winner both go
\* to the player with the highest final chip count, the first of them in input
\* order when several share it: chips [2000,6000,2000] record the second
\* player, chips [3333,3333,3334] give the dust to the third.
C9_DustAndWinnerToFirstHighest ==
  [][(settlements' = settlements + 1 /\ lastTx'.fn = "settleCashGame") =>
         LET args == <<lastTx'.players, lastTx'.finalChips>>
             P == contract.room.pot
             c == args[2]
             T == SumSeq(c)
             D == P - FloorRake(P, contract.rakeFee)
             share(a) == SumSeq([i \in 1..Len(c) |->
                                   IF args[1][i] = a THEN FloorShare(D, c[i], T) ELSE 0])
             dust == D - SumSeq([i \in 1..Len(c) |-> FloorShare(D, c[i], T)])
             top == args[1][FirstHighest(c)]
         IN /\ contract'.room.winner = top
            /\ Received(top) = share(top) + dust
            /\ \A a \in Accounts \ {top} : Received(a) = share(a)
            /\ c = <<2000, 6000, 2000>> => contract'.room.winner = args[1][2]
            /\ c = <<3333, 3333, 3334>> =>
                 Received(args[1][3]) = FloorShare(D, 3334, T) + dust
    ]_vars

\* a settlement with tied highest chip counts has left dust with the first of
\* them: [4000,4000,2001] on a pot whose shares do not divide evenly
C9_Witness ==
  /\ lastTx.fn = "settleCashGame"
  /\ lastTx.finalChips = <<4000, 4000, 2001>>
  /\ contract.room.winner = "a1"
  /\ \E k \in 1..Len(lastTx.transfers) :
       /\ k > 3
       /\ lastTx.transfers[k].to = "a1"

\* C10: a successful declareWinner on an ACTIVE room with pot P > 0 and rake
\* rate r transfers P - floor(P*r/10000) to the declared winner and
\* floor(P*r/10000) to the treasury (P in all), adds the rake to
\* totalRakeCollected and leaves pot 0, state FINISHED and the winner recorded;
\* it reverts when the declared winner has not joined the room.
C10_DeclareWinnerPayout ==
  /\ [][(settlements' = settlements + 1 /\ lastTx'.fn = "declareWinner") =>
            LET winner == lastTx'.account
                P == contract.room.pot
                rake == FloorRake(P, contract.rakeFee)
            IN /\ contract.room.state = "ACTIVE" /\ P > 0
               /\ contract.room.hasJoined[winner]
               /\ Received(winner) = P - rake
               /\ Received(TREASURY) = rake
               /\ Received(GAME) = 0 - P
               /\ \A a \in Accounts \ {winner} : Received(a) = 0
               /\ contract'.totalRakeCollected = contract.totalRakeCollected + rake
               /\ contract'.room.pot = 0
               /\ contract'.room.state = "FINISHED"
               /\ contract'.room.winner = winner
       ]_vars
  /\ [](\A sender \in Callers, winner \in Winners :
          (contract.room.state = "ACTIVE" /\ ~contract.room.hasJoined[winner]) =>
            LET r == declareWinner(contract, sender, timestamp, winner)
            IN Refused(r) /\ r.error = "Winner not in room")

\* a winner has been declared on a pot whose rake is rounded down (750 -> 37)
C10_Witness ==
  /\ lastTx.fn = "declareWinner"
  /\ contract.room.state = "FINISHED"
  /\ contract.room.winner = lastTx.account
  /\ contract.totalRakeCollected = 37
  /\ lastTx.transfers[1].amount = 713

\* C11: declareWinner takes effect only when the contract owner calls it; a
\* call from any other address reverts, changes nothing and moves no token.
C11_DeclareWinnerOnlyOwner ==
  \A sender \in Callers \ {OWNER}, winner \in Winners :
    LET r == declareWinner(contract, sender, timestamp, winner)
    IN Refused(r) /\ r.error # ""

(***************************************************************************)
(* Properties of betting (checked under Spec)                              *)
(***************************************************************************)
\* the seat (1-based) playerId holds when it is that player's turn, else 0
TurnSeat(g, playerId) ==
  IF /\ playerId # NoId
     /\ g.currentPlayerIndex < Len(g.players)
     /\ g.players[g.currentPlayerIndex + 1].id = playerId
  THEN g.currentPlayerIndex + 1 ELSE 0

\* the amount required of player p: the stake, or half of it for a blind player
Required(g, p) == IF p.isBlind THEN g.currentBet \div 2 ELSE g.currentBet

\* C12: for the current-turn player of an active round whose pot is below the
\* limit and whose chips are at least the required amount r, a bet or chaal is
\* accepted if and only if its amount is r or 2r; every other amount is
\* rejected with the invalid-bet-amount error (and changes nothing).
C12_BetAcceptedIffRequiredOrDouble ==
  \A s \in Sockets, a \in {"bet", "chaal"}, amt \in Amounts :
    LET id == playerSockets[s]
        i == TurnSeat(game, id)
        r == Required(game, game.players[i])
        res == playerAction(game, id, a, amt)
    IN (/\ RoundActive
        /\ i # 0
        /\ game.pot < game.minBet * POT_LIMIT_FACTOR
        /\ game.players[i].chips >= r)
       => /\ amt \in {r, 2 * r} => (res.success /\ res.thrown = "")
          /\ amt \notin {r, 2 * r} =>
               /\ ~res.success /\ res.thrown = ""
               /\ res.error = "Invalid bet amount"
               /\ res.g = game

\* a bet above the ante has been accepted, and the player now to act has the
\* chips to call
C12_Witness ==
  /\ RoundActive
  /\ game.pot < game.minBet * POT_LIMIT_FACTOR
  /\ \E j \in 1..Len(game.players) : game.players[j].totalBet > game.minBet
  /\ TurnSeat(game, game.players[game.currentPlayerIndex + 1].id) # 0
  /\ LET p == game.players[game.currentPlayerIndex + 1]
     IN ~p.isFolded /\ p.chips >= 2 * Required(game, p)

C14_StakeIsSeenEquivalent ==
  \A s \in Sockets, a \in {"bet", "chaal"}, amt \in Amounts :
    LET id == playerSockets[s]
        i == TurnSeat(game, id)
        p == game.players[i]
        res == playerAction(game, id, a, amt)
        next == res.g.players[res.g.currentPlayerIndex + 1]
        seen == playerAction(res.g, next.id, "see", 0).g
    IN (/\ RoundActive
        /\ i # 0
        /\ p.chips >= Required(game, p)
        /\ res.success /\ res.thrown = "")
       => /\ res.g.currentBet =
               Max(game.currentBet, IF p.isBlind THEN 2 * amt ELSE amt)
          /\ (/\ p.isBlind
              /\ game.currentBet = game.minBet
              /\ amt = game.minBet
              /\ next.chips >= 2 * game.minBet)
             => /\ Required(seen, seen.players[seen.currentPlayerIndex + 1])
                     = 2 * game.minBet
                /\ playerAction(seen, next.id, "chaal", 2 * game.minBet).success
                /\ LET low == playerAction(seen, next.id, "bet", game.minBet)
                   IN ~low.success /\ low.error = "Invalid bet amount"
                      /\ low.g = seen

\* a blind player has bet minBet over the ante at the opening stake, and the
\* player now to act has seen with the chips to call the doubled stake
C14_Witness ==
  /\ RoundActive
  /\ game.currentBet = 2 * game.minBet
  /\ game.currentPlayerIndex < Len(game.players)
  /\ LET q == game.players[game.currentPlayerIndex + 1]
     IN q.hasSeenCards /\ ~q.isFolded /\ q.chips >= 2 * game.minBet
  /\ \E j \in 1..Len(game.players) :
       /\ game.players[j].isBlind
       /\ game.players[j].currentBet = game.minBet
       /\ game.players[j].totalBet = 2 * game.minBet

(***************************************************************************)
(* The pot limit (checked under HighStakesSpec)                            *)
(***************************************************************************)
\* C15: whenever the pot is at least 1024 x minBet, every bet or chaal of the
\* current-turn player, whatever its amount, is rejected with the pot-limit
\* error and changes nothing: chips, pot, stake and turn index stay as they
\* are, in Game.playerAction and in the playerAction handler alike.
C15_PotLimitRejectsBets ==
  \A s \in Sockets, a \in {"bet", "chaal"} :
    LET id == playerSockets[s]
        i == TurnSeat(game, id)
        p == game.players[i]
        r == Required(game, p)
    IN (/\ RoundActive
        /\ i # 0
        /\ game.pot >= POT_LIMIT_FACTOR * game.minBet)
       => \A amt \in Amounts \cup {r, 2 * r, p.chips} :
            LET res == playerAction(game, id, a, amt)
                evt == onPlayerAction(game, id, a, amt)
            IN /\ ~res.success /\ res.thrown = ""
               /\ res.error = "Pot limit reached. You must Show."
               /\ res.g = game
               /\ evt.g = game /\ evt.thrown = "" /\ ~evt.ended

\* the pot has reached the limit exactly, in a round that is still on, and the
\* player to act holds the chips for the bet the limit refuses
C15_Witness ==
  /\ RoundActive
  /\ game.pot = POT_LIMIT_FACTOR * game.minBet
  /\ game.currentPlayerIndex < Len(game.players)
  /\ LET p == game.players[game.currentPlayerIndex + 1]
     IN ~p.isFolded /\ p.chips >= 2 * Required(game, p)

(***************************************************************************)
(* Properties of the refusals (checked under Spec)                         *)
(***************************************************************************)
\* C16: in an active round a see, bet/chaal or fold/pack of a player who does
\* not hold the turn is rejected with the not-your-turn error and changes
\* nothing in the game, through the playerAction event and through the
\* seeCards event alike.
C16_NotYourTurnChangesNothing ==
  \A s \in Sockets :
    LET id == playerSockets[s]
    IN (/\ RoundActive
        /\ IndexOfId(game.players, id) # 0
        /\ game.currentPlayerIndex < Len(game.players)
        /\ TurnSeat(game, id) = 0)
       => /\ \A a \in {"see", "bet", "chaal", "fold", "pack"}, amt \in Amounts :
               LET res == playerAction(game, id, a, amt)
               IN ~res.success /\ res.error = "Not your turn" /\ res.g = game
          /\ seeCards(game, id) = game

\* C17: while the round of a room is not active (never started, or ended),
\* every see, bet/chaal, fold/pack and show request of a player of the room is
\* rejected and leaves the game as it is: no chips, pot, flags, turn index or
\* dealer index change.
C17_NoActionOutsideRound ==
  \A s \in Sockets :
    LET id == playerSockets[s]
    IN (/\ Running /\ room = "open"
        /\ ~game.gameStarted
        /\ IndexOfId(game.players, id) # 0)
       => /\ \A a \in {"see", "bet", "chaal", "fold", "pack"}, amt \in Amounts :
               LET res == playerAction(game, id, a, amt)
               IN ~res.success /\ res.thrown = "" /\ res.g = game
          /\ seeCards(game, id) = game
          /\ onShow(game).error # "" /\ onShow(game).g = game

(***************************************************************************)
(* Properties of the showdown, of leaving and of the start (under Spec)    *)
(***************************************************************************)
\* the seats (1-based) of the players of g that are still in the round
NonFoldedSeats(g) ==
  {j \in 1..Len(g.players) : g.players[j].isActive /\ ~g.players[j].isFolded}

\* C18: in an active round with two or more non-folded players (three or more
\* included) a show request ends the round and credits the pot to a non-folded
\* player whose hand no other non-folded player's hand beats.
C18_ShowEndsRoundForBestHand ==
  (RoundActive /\ Cardinality(NonFoldedSeats(game)) >= 2)
  => LET r == onShow(game)
     IN /\ r.error = "" /\ r.ended
        /\ ~r.g.gameStarted
        /\ \E w \in NonFoldedSeats(game) :
             /\ r.g.players[w].chips = game.players[w].chips + game.pot
             /\ \A j \in NonFoldedSeats(game) \ {w} :
                  compareHands(game.players[j], game.players[w])
                    # game.players[j].id

\* C19: when a player of the room leaves or disconnects while the round is
\* active, the player is removed and the round-end detection runs in the same
\* step: if exactly one non-folded player remains the round ends and that
\* player's chips grow by the full pot, the bets of the departed player
\* included; if two or more remain the round stays active and the pot is
\* unchanged.
C19_LeaveRunsRoundEnd ==
  [][\A s \in Sockets :
       LET id == playerSockets[s]
           i == IndexOfId(game.players, id)
           rest == NonFoldedSeats(game) \ {i}
       IN (RoundActive /\ i # 0 /\ handlePlayerDisconnect(s))
          => /\ playerSockets'[s] = NoId
             /\ room' = "open"
             /\ Len(game'.players) = Len(game.players) - 1
             /\ IndexOfId(game'.players, id) = 0
             /\ Cardinality(rest) = 1 =>
                  LET w == CHOOSE j \in rest : TRUE
                      w2 == IndexOfId(game'.players, game.players[w].id)
                  IN /\ ~game'.gameStarted
                     /\ w2 # 0
                     /\ game'.players[w2].chips = game.players[w].chips + game.pot
             /\ Cardinality(rest) >= 2 =>
                  /\ game'.gameStarted
                  /\ game'.pot = game.pot
    ]_vars

\* a player has left a round of three that goes on: two players are seated, the
\* round is active and the pot still holds the three antes
C19_Witness ==
  /\ RoundActive
  /\ Len(game.players) = 2
  /\ Cardinality(NonFoldedSeats(game)) = 2
  /\ game.pot = 3 * game.minBet
  /\ SumTotalBet(game.players) = 2 * game.minBet

(***************************************************************************)
(* The start of a round (checked under TableSpec)                          *)
(***************************************************************************)
\* the card slots held at the table: <<seat, position in the hand>>
HeldCards(g) ==
  {<<j, k>> : j \in 1..Len(g.players), k \in 1..3}

\* C20: a start request is refused and changes nothing when fewer than 2
\* players are seated or a round is already active; otherwise, after it, the
\* round is active, every player is non-folded, blind and unseen and holds
\* exactly 3 cards, no card is held twice (the 3N slots hold 3N different
\* cards), currentBet is minBet and the turn index is (dealerIndex + 1) mod N.
C20_StartDealsFreshRound ==
  \A cut \in ShuffleCuts :
    LET n == Len(game.players)
        g2 == startGame(game, DeckDeal(Shuffled(cut), n))
    IN (Running /\ room = "open") =>
         IF n < 2 \/ game.gameStarted
         THEN g2 = game /\ ~canStartGame(game)
         ELSE /\ canStartGame(game)
              /\ g2.gameStarted
              /\ Len(g2.players) = n
              /\ \A j \in 1..n :
                   /\ g2.players[j].id = game.players[j].id
                   /\ g2.players[j].isActive /\ ~g2.players[j].isFolded
                   /\ g2.players[j].isBlind /\ ~g2.players[j].hasSeenCards
                   /\ Len(g2.players[j].cards) = 3
                   /\ \A k \in 1..3 :
                        /\ \E x \in 1..Len(RANKS) : g2.players[j].cards[k].rank = RANKS[x]
                        /\ \E x \in 1..Len(SUITS) : g2.players[j].cards[k].suit = SUITS[x]
              /\ Cardinality({g2.players[h[1]].cards[h[2]] : h \in HeldCards(g2)})
                   = 3 * n
              /\ g2.currentBet = g2.minBet
              /\ g2.currentPlayerIndex = (game.dealerIndex + 1) % n
              /\ g2.dealerIndex = game.dealerIndex

\* a second round has been started at a table of three or more whose first
\* round left folded and seen players behind: all are back in, blind, with
\* three cards each
C20_Witness ==
  /\ RoundActive
  /\ rounds = MaxTableRounds
  /\ Len(game.players) >= 3
  /\ game.dealerIndex = 1
  /\ game.currentPlayerIndex = 2 % Len(game.players)
  /\ \A j \in 1..Len(game.players) :
       /\ game.players[j].isBlind /\ ~game.players[j].isFolded
       /\ Len(game.players[j].cards) = 3

(***************************************************************************)
(* Properties of the ante and of the end of a round (checked under Spec)   *)
(***************************************************************************)
\* C21: after every successful start with N players each player's chips are
\* lower by exactly minBet, each player's totalBet is minBet and the pot is
\* N x minBet, whatever chips the players held before the start.
C21_AnteIsMinBetFromEveryone ==
  \A hands \in Deals(Len(game.players)) :
    LET n == Len(game.players)
        g2 == startGame(game, hands)
    IN (Running /\ room = "open" /\ canStartGame(game))
       => /\ g2.gameStarted
          /\ \A j \in 1..n :
               /\ g2.players[j].chips = game.players[j].chips - game.minBet
               /\ g2.players[j].totalBet = game.minBet
          /\ g2.pot = n * game.minBet

(***************************************************************************)
(* The end of a round (checked under TableSpec)                            *)
(***************************************************************************)
\* the ids seated in g
SeatedIds(g) == {g.players[j].id : j \in 1..Len(g.players)}

\* C22: endGame(winner) adds exactly the pot to the winner's chips, leaves
\* every other player's chips unchanged, sets gameStarted to false and sets
\* dealerIndex to (dealerIndex + 1) mod N; endGame(null) changes no player's
\* chips but still clears gameStarted and rotates dealerIndex.
C22_EndGameCreditsAndRotates ==
  \A winnerId \in SeatedIds(game) \cup {NoId} :
    LET n == Len(game.players)
        g2 == endGame(game, winnerId)
    IN (Running /\ room = "open" /\ n >= 1)
       => /\ Len(g2.players) = n
          /\ \A j \in 1..n :
               /\ g2.players[j].id = game.players[j].id
               /\ g2.players[j].chips =
                    IF game.players[j].id = winnerId
                    THEN game.players[j].chips + game.pot
                    ELSE game.players[j].chips
          /\ ~g2.gameStarted
          /\ g2.dealerIndex = (game.dealerIndex + 1) % n

\* two rounds have been ended at a table of three or more: the dealer has moved
\* on twice, and the winner of the second holds the pot on top of what was left
C22_Witness ==
  /\ Running /\ ~game.gameStarted
  /\ rounds = 2
  /\ Len(game.players) >= 3
  /\ game.dealerIndex = 2
  /\ game.pot > 0
  /\ \E j \in 1..Len(game.players) :
       game.players[j].chips > HighBuyIn

(***************************************************************************)
(* The pot between rounds, and the see action (checked under Spec)         *)
(***************************************************************************)
\* C23: once a round has ended (a round was started and gameStarted is false
\* again), the pot of the room is 0, and it stays 0 until the next start.
C23_PotZeroBetweenRounds ==
  (Running /\ room = "open" /\ rounds >= 1 /\ ~game.gameStarted) => game.pot = 0

\* game g with the player at seat i marked seen and nothing else changed
SeenAt(g, i) ==
  [g EXCEPT !.players[i].hasSeenCards = TRUE, !.players[i].isBlind = FALSE]

\* C24: an accepted see (the 'see' action of the player holding the turn, or
\* the seeCards event of a seated player) sets that player's hasSeenCards to
\* true and isBlind to false and leaves the turn index, currentBet, pot and
\* every player's chips, bets and folded flags unchanged; in an active round
\* the playerAction handler adds nothing to that.
C24_SeeOnlyMarksSeen ==
  \A s \in Sockets :
    LET id == playerSockets[s]
        i == IndexOfId(game.players, id)
        res == playerAction(game, id, "see", 0)
    IN (Running /\ room = "open" /\ i # 0)
       => /\ seeCards(game, id) = SeenAt(game, i)
          /\ res.success => (res.thrown = "" /\ res.g = SeenAt(game, i))
          /\ (res.success /\ game.gameStarted) =>
               LET evt == onPlayerAction(game, id, "see", 0)
               IN evt.g = SeenAt(game, i) /\ ~evt.ended /\ evt.thrown = ""

\* in an active round a player with chips at stake, who has bet since the
\* ante, has seen while the turn is still that player's
C24_Witness ==
  /\ RoundActive
  /\ game.currentPlayerIndex < Len(game.players)
  /\ LET p == game.players[game.currentPlayerIndex + 1]
     IN /\ p.hasSeenCards /\ ~p.isBlind /\ ~p.isFolded
        /\ p.totalBet > game.minBet
        /\ p.currentBet > 0

(***************************************************************************)
(* Properties of the hand evaluator (checked under HandSpec)               *)
(***************************************************************************)
\* the ranks of the cards of a hand
RanksOf(cards) == {cards[k].rank : k \in 1..Len(cards)}

\* the cards of a hand share one suit
OneSuit(cards) == Cardinality({cards[k].suit : k \in 1..Len(cards)}) = 1

\* the two seats of a showdown, in both orders
Versus == {<<1, 2>>, <<2, 1>>}

\* C25: A-2-3 is classified as a Sequence, as a PureSequence when its cards
\* share a suit; in compareHands it loses to every hand of the same category
\* made of other ranks, in particular to 2-3-4, and it beats every hand of a
\* lower category, whichever of the two players holds it.
C25_AceTwoThreeIsLowestSequence ==
  \A v \in Versus :
    LET mine == game.players[v[1]]
        other == game.players[v[2]]
        hand == evaluateHand(mine.cards)
        against == evaluateHand(other.cards)
    IN RanksOf(mine.cards) = {"A", "2", "3"}
       => /\ hand.rank = IF OneSuit(mine.cards) THEN HAND_RANKINGS.PURE_SEQUENCE
                         ELSE HAND_RANKINGS.SEQUENCE
          /\ (against.rank = hand.rank /\ RanksOf(other.cards) # {"A", "2", "3"})
             => /\ compareHands(mine, other) = other.id
                /\ compareHands(other, mine) = other.id
          /\ against.rank < hand.rank
             => /\ compareHands(mine, other) = mine.id
                /\ compareHands(other, mine) = mine.id

\* a showdown has been won by 2-3-4 of one suit against A-2-3 of one suit
C25_Witness ==
  /\ ~game.gameStarted /\ rounds = 1
  /\ \E v \in Versus :
       /\ RanksOf(game.players[v[1]].cards) = {"A", "2", "3"}
       /\ OneSuit(game.players[v[1]].cards)
       /\ RanksOf(game.players[v[2]].cards) = {"2", "3", "4"}
       /\ OneSuit(game.players[v[2]].cards)
       /\ game.players[v[2]].chips = HighBuyIn + game.minBet
       /\ game.players[v[1]].chips = HighBuyIn - game.minBet

\* RANKS.indexOf(rank)
ValueOfRank(rank) == (CHOOSE i \in 1..Len(RANKS) : RANKS[i] = rank) - 1

\* the rank that two cards of the hand share, and the rank of the third card
PairRank(cards) ==
  CHOOSE r \in RanksOf(cards) :
    Cardinality({k \in 1..Len(cards) : cards[k].rank = r}) = 2

Kicker(cards) == CHOOSE r \in RanksOf(cards) : r # PairRank(cards)

\* the orders three cards can be held in
Orders == {<<1, 2, 3>>, <<1, 3, 2>>, <<2, 1, 3>>, <<2, 3, 1>>, <<3, 1, 2>>, <<3, 2, 1>>}

\* C26: for every hand with exactly two equal ranks evaluateHand returns Pair
\* with key [pairRank, pairRank, kicker], whatever the order of the cards and
\* whether the kicker is above or below the pair; between two Pair hands the
\* higher pair rank wins whatever the kickers, the kicker decides between equal
\* pair ranks, and equal pair and kicker tie.
C26_PairKeyedByPairThenKicker ==
  \A v \in Versus :
    LET mine == game.players[v[1]]
        other == game.players[v[2]]
        pr == ValueOfRank(PairRank(mine.cards))
        k == ValueOfRank(Kicker(mine.cards))
        opr == ValueOfRank(PairRank(other.cards))
        ok == ValueOfRank(Kicker(other.cards))
    IN Cardinality(RanksOf(mine.cards)) = 2
       => /\ \A o \in Orders :
               evaluateHand(<<mine.cards[o[1]], mine.cards[o[2]], mine.cards[o[3]]>>)
                 = [rank |-> HAND_RANKINGS.PAIR, values |-> <<pr, pr, k>>]
          /\ Cardinality(RanksOf(other.cards)) = 2
             => /\ pr > opr
                   => /\ compareHands(mine, other) = mine.id
                      /\ compareHands(other, mine) = mine.id
                /\ (pr = opr /\ k > ok)
                   => /\ compareHands(mine, other) = mine.id
                      /\ compareHands(other, mine) = mine.id
                /\ (pr = opr /\ k = ok)
                   => /\ compareHands(mine, other) = NoId
                      /\ compareHands(other, mine) = NoId

\* a showdown has been won by K-K-2 against 5-5-K
C26_Witness ==
  /\ ~game.gameStarted /\ rounds = 1
  /\ \E v \in Versus :
       /\ RanksOf(game.players[v[1]].cards) = {"K", "2"}
       /\ PairRank(game.players[v[1]].cards) = "K"
       /\ RanksOf(game.players[v[2]].cards) = {"5", "K"}
       /\ PairRank(game.players[v[2]].cards) = "5"
       /\ game.players[v[1]].chips = HighBuyIn + game.minBet

\* the positions at which two keys differ
Differing(v1, v2) == {i \in 1..Len(v1) : v1[i] # v2[i]}

\* the first of a non-empty set of positions
First(S) == CHOOSE i \in S : \A j \in S : i <= j

\* C27: compareHands returns the player whose hand has the higher category;
\* for equal categories the player whose key is larger at the first position
\* where the keys differ; and null (a tie) exactly when category and key are
\* fully equal, as for the same ranks in other suits. Swapping the arguments
\* swaps the winner with them and keeps a tie a tie.
C27_CompareHandsByCategoryThenKey ==
  \A v \in Versus :
    LET mine == game.players[v[1]]
        other == game.players[v[2]]
        h1 == evaluateHand(mine.cards)
        h2 == evaluateHand(other.cards)
        d == Differing(h1.values, h2.values)
        r == compareHands(mine, other)
    IN /\ h1.rank > h2.rank => r = mine.id
       /\ h1.rank < h2.rank => r = other.id
       /\ (h1.rank = h2.rank /\ d # {}) =>
            r = IF h1.values[First(d)] > h2.values[First(d)]
                THEN mine.id ELSE other.id
       /\ r = NoId <=> (h1.rank = h2.rank /\ h1.values = h2.values)
       /\ compareHands(other, mine) = r

\* a showdown has been held between two hands of the same ranks in other
\* suits, which tie
C27_Witness ==
  /\ ~game.gameStarted /\ rounds = 1
  /\ Len(game.players) = 2
  /\ compareHands(game.players[1], game.players[2]) = NoId
  /\ CardsOf(game.players[1].cards) \cap CardsOf(game.players[2].cards) = {}
  /\ Cardinality(RanksOf(game.players[1].cards)) = 3
  /\ RanksOf(game.players[1].cards) = RanksOf(game.players[2].cards)

(***************************************************************************)
(* The timeout of the custody contract (checked under ChainSpec)           *)
(***************************************************************************)
\* C28: handleTimeout succeeds only for a room that has been ACTIVE for at
\* least GAME_TIMEOUT; called earlier it reverts and changes nothing. So in
\* the block in which the room has just become ACTIVE a handleTimeout call
\* reverts, with no state change and no transfer.
C28_TimeoutCountsFromActive ==
  [][(contract.room.state = "WAITING" /\ contract'.room.state = "ACTIVE")
       => LET r == handleTimeout(contract', timestamp')
          IN r.error # "" /\ r.c = contract' /\ r.transfers = <<>>
    ]_vars

(***************************************************************************)
(* Properties of seating and of the room registry (checked under Spec)     *)
(***************************************************************************)
\* C29: the player list of a room never exceeds maxPlayers and gains no new
\* player while the round is active: every join of a new player, by joinRoom
\* or by joinRoomWithBlockchain, on a full or started room is rejected and
\* adds no player.
C29_NoJoinWhenFullOrStarted ==
  (Running /\ room = "open") =>
    /\ Len(game.players) <= game.maxPlayers
    /\ (game.gameStarted \/ Len(game.players) >= game.maxPlayers) =>
         /\ joinRoomError(game, room) # ""
         /\ \A sw \in WalletSessions, b \in BuyInTokens :
              sw[2] \notin SeatedIds(game)
              => joinRoomWithBlockchain(game, sw[2], b) = game

BadSettleArgs(rm, players, finalChips) ==
  \/ Len(players) # Len(finalChips)
  \/ Len(players) = 0
  \/ SumSeq(finalChips) = 0
  \/ \E i \in 1..Len(players) : ~rm.hasJoined[players[i]]

\* C32: settleCashGame reverts, with the room's state, the pot and every token
\* balance unchanged, when the players and finalChips arrays differ in length,
\* when no player is given, when the finalChips total is zero, or when a
\* listed player has not joined the room; no settlement is ever mined with
\* such arguments.
C32_SettleCashGameRefusesBadArgs ==
  /\ [](\A sender \in Callers, args \in SettleArgs :
          BadSettleArgs(contract.room, args[1], args[2]) =>
            LET r == settleCashGame(contract, sender, timestamp, args[1], args[2])
            IN /\ r.error # ""
               /\ r.transfers = <<>>
               /\ r.c = contract)
  /\ [][(lastTx' # lastTx /\ lastTx'.fn = "settleCashGame")
          => ~BadSettleArgs(contract.room, lastTx'.players, lastTx'.finalChips)
       ]_vars

\* an ACTIVE room with a pot that a3 is not in: the owner's settlement listing
\* a3, the one with arrays of different lengths, the one with no player and
\* the one with all chips zero are each refused for their own reason
C32_Witness ==
  LET rm == contract.room
      refusal(players, finalChips) ==
        settleCashGame(contract, OWNER, timestamp, players, finalChips).error
  IN /\ rm.state = "ACTIVE" /\ rm.pot > 0
     /\ ~rm.hasJoined["a3"] /\ rm.hasJoined["a1"] /\ rm.hasJoined["a2"]
     /\ refusal(<<"a1", "a2", "a3">>, <<5000, 3000, 2000>>) = "Player not in room"
     /\ refusal(<<"a1", "a2">>, <<5000, 3000, 2000>>) = "Array length mismatch"
     /\ refusal(<<>>, <<>>) = "No players provided"
     /\ refusal(<<"a2", "a1">>, <<1, 2>>) = ""
     /\ refusal(<<"a1", "a2", "a3">>, <<0, 0, 0>>)
          = "Total chips must be greater than zero"

(***************************************************************************)
(* Properties of the chips at the table (checked under Spec)               *)
(***************************************************************************)
\* the chips in play: every seated player's chips, and the pot of the round
\* while one is played
ChipsInPlay(g) ==
  SumSeq([i \in 1..Len(g.players) |-> g.players[i].chips])
    + (IF g.gameStarted THEN g.pot ELSE 0)

\* C33: with no player joining or leaving, the players' chips plus the pot of
\* the round stay constant from the start of a round on, and after the round
\* has ended the players' chips alone keep that sum: no request that arrives
\* after the end of the round credits the pot a second time.
C33_ChipsConserved ==
  [][(room = "open" /\ room' = "open" /\ SeatedIds(game') = SeatedIds(game))
       => ChipsInPlay(game') = ChipsInPlay(game)]_vars

(***************************************************************************)
(* The tokens behind a room's pot (checked under ChainSpec)                *)
(***************************************************************************)
\* the tokens the contract holds for the room: what it holds in all, less
\* what the depositor of the other room has paid in
HeldForRoom(c) == c.balanceOf[GAME] - (OtherBuyIn - c.balanceOf[DEPOSITOR])

\* C34: after any sequence of transactions room.pot equals the tokens the
\* contract still holds for the room, and the tokens paid out for the room
\* never exceed the tokens deposited into it.
C34_PotBackedByTokens ==
  /\ contract.room.pot = HeldForRoom(contract)
  /\ HeldForRoom(contract) >= 0

(***************************************************************************)
(* The settlement request and the round (checked under Spec)               *)
(***************************************************************************)
\* C35: the settlement endpoint sends an on-chain cash-game settlement for a
\* room only when no round is being played in it, so that the chip counts it
\* sends account for every chip of the room and none sits in the pot of a
\* round.
C35_SettleOnlyOutsideRound ==
  \A body \in SettleRequests(game), initialized \in BOOLEAN :
    LET r == settleGame(game, room, body, initialized)
    IN (Running /\ r.call.sent) =>
         /\ ~game.gameStarted
         /\ SumSeq(r.call.finalChips) = ChipsInPlay(game)

(***************************************************************************)
(* The order of turns (checked under TableSpec)                            *)
(***************************************************************************)
\* the seats after idx in cyclic order, as steps 1..n from idx
SeatAfter(g, idx, k) == (idx + k) % Len(g.players)

\* C36: with at least two non-folded players, nextPlayer from any seat index
\* moves the turn to the first non-folded player met scanning the seats
\* cyclically after that index, wrapping from the last seat to seat 0: every
\* seat passed over is folded, the seat reached is not, and nothing else of
\* the game changes.
C36_NextPlayerFirstNonFolded ==
  \A idx \in 0..(Len(game.players) - 1) :
    LET g == [game EXCEPT !.currentPlayerIndex = idx]
        r == nextPlayer(g)
        n == Len(g.players)
    IN Len(getActivePlayers(g)) >= 2 =>
         /\ r.thrown = ""
         /\ r.g = [g EXCEPT !.currentPlayerIndex = r.g.currentPlayerIndex]
         /\ \E k \in 1..n :
              /\ r.g.currentPlayerIndex = SeatAfter(g, idx, k)
              /\ ~g.players[SeatAfter(g, idx, k) + 1].isFolded
              /\ \A j \in 1..(k - 1) : g.players[SeatAfter(g, idx, j) + 1].isFolded

\* a round of four in which only player[1] has folded: from index 0 the turn
\* goes to index 2, and from index 3 it wraps to index 0
C36_Witness ==
  /\ game.gameStarted
  /\ Len(game.players) = 4
  /\ \A i \in 1..4 : game.players[i].isFolded <=> i = 2
  /\ nextPlayer([game EXCEPT !.currentPlayerIndex = 0]).g.currentPlayerIndex = 2
  /\ nextPlayer([game EXCEPT !.currentPlayerIndex = 3]).g.currentPlayerIndex = 0

\* the rank values of a hand
ValuesOf(cards) == {ValueOfRank(r) : r \in RanksOf(cards)}

\* three consecutive ranks, or A-2-3
IsRun(cards) ==
  \/ \E v \in 0..(Len(RANKS) - 3) : ValuesOf(cards) = {v, v + 1, v + 2}
  \/ RanksOf(cards) = {"A", "2", "3"}

\* the category the rules give a hand, taken in their order of priority
CategoryOf(cards) ==
  IF Cardinality(RanksOf(cards)) = 1 THEN HAND_RANKINGS.TRIO
  ELSE IF IsRun(cards) /\ OneSuit(cards) THEN HAND_RANKINGS.PURE_SEQUENCE
  ELSE IF IsRun(cards) THEN HAND_RANKINGS.SEQUENCE
  ELSE IF OneSuit(cards) THEN HAND_RANKINGS.COLOR
  ELSE IF Cardinality(RanksOf(cards)) = 2 THEN HAND_RANKINGS.PAIR
  ELSE HAND_RANKINGS.HIGH_CARD

\* the rank values of a hand of three different ranks, highest first
Descending(cards) ==
  LET V == ValuesOf(cards)
      hi == CHOOSE x \in V : \A y \in V : y <= x
      lo == CHOOSE x \in V : \A y \in V : x <= y
      mid == CHOOSE x \in V : x # hi /\ x # lo
  IN <<hi, mid, lo>>

\* C37: for every hand of three distinct cards, in every order of its cards,
\* evaluateHand returns the category given by the rules in priority order:
\* Trio, PureSequence (a sequence of one suit), Sequence, Color (one suit and
\* no sequence), Pair (exactly two equal ranks), otherwise HighCard with the
\* ranks in descending order as key; the categories are ordered
\* HighCard < Pair < Color < Sequence < PureSequence < Trio.
C37_CategoryByRules ==
  /\ HAND_RANKINGS.HIGH_CARD < HAND_RANKINGS.PAIR
  /\ HAND_RANKINGS.PAIR < HAND_RANKINGS.COLOR
  /\ HAND_RANKINGS.COLOR < HAND_RANKINGS.SEQUENCE
  /\ HAND_RANKINGS.SEQUENCE < HAND_RANKINGS.PURE_SEQUENCE
  /\ HAND_RANKINGS.PURE_SEQUENCE < HAND_RANKINGS.TRIO
  /\ \A i \in 1..Len(game.players), o \in Orders :
       LET cards == game.players[i].cards
           held == <<cards[o[1]], cards[o[2]], cards[o[3]]>>
           hand == evaluateHand(held)
       IN /\ hand.rank = CategoryOf(cards)
          /\ hand.rank = HAND_RANKINGS.HIGH_CARD => hand.values = Descending(cards)

\* a showdown between a Sequence and a Color has gone to the Sequence, and all
\* six categories are among the hands dealt
C37_Witness ==
  /\ ~game.gameStarted /\ rounds = 1
  /\ \E v \in Versus :
       /\ evaluateHand(game.players[v[1]].cards).rank = HAND_RANKINGS.SEQUENCE
       /\ evaluateHand(game.players[v[2]].cards).rank = HAND_RANKINGS.COLOR
       /\ game.players[v[1]].chips = HighBuyIn + game.minBet
  /\ \A c \in 0..5 :
       \E k \in 1..Len(HandSamples) : CategoryOf(HandSamples[k]) = c

(***************************************************************************)
(* The chip arithmetic (checked under Spec)                                *)
(***************************************************************************)
\* C38: in every reachable state every player's chips, currentBet and totalBet
\* are non-negative integers, whatever antes, calls, raises and all-ins were
\* made; the stake a blind player pays half of is even, so the half is whole;
\* and the chip counts handed to the settlement pass its check of
\* non-negative integers.
C38_ChipsAreNaturals ==
  /\ \A i \in 1..Len(game.players) :
       /\ game.players[i].chips \in Nat
       /\ game.players[i].currentBet \in Nat
       /\ game.players[i].totalBet \in Nat
  /\ game.pot \in Nat
  /\ game.currentBet \in Nat /\ game.currentBet % 2 = 0
  /\ Len(game.players) >= 1 =>
       LET call == settlementCall(TRUE, "0xroom", realChipCounts(game))
       IN /\ call.sent
          /\ \A k \in 1..Len(call.finalChips) : call.finalChips[k] \in Nat

\* a round in which one player went all-in with fewer chips than the stake
\* after the ante and a blind player has paid half of the stake
C38_Witness ==
  /\ \E i \in 1..Len(game.players) :
       /\ game.players[i].chips = 0
       /\ game.players[i].totalBet > game.minBet
       /\ game.players[i].currentBet < game.minBet
  /\ \E j \in 1..Len(game.players) :
       /\ game.players[j].isBlind
       /\ game.players[j].totalBet > game.minBet
       /\ game.players[j].currentBet * 2 = game.currentBet
       /\ game.players[j].chips > 0

(***************************************************************************)
(* The tied showdown (checked under Spec)                                  *)
(***************************************************************************)
\* C39: when a show compares two hands that tie, the whole pot is credited to
\* the first non-folded player in seating order, who is the winner announced;
\* nobody else's chips change, so the pot is neither split nor left unawarded.
C39_TieGoesToFirstSeated ==
  LET seats == NonFoldedSeats(game)
      w == CHOOSE j \in seats : \A k \in seats : j <= k
      l == CHOOSE j \in seats : j # w
      r == onShow(game)
  IN (Cardinality(seats) = 2
        /\ compareHands(game.players[w], game.players[l]) = NoId
        /\ compareHands(game.players[l], game.players[w]) = NoId)
     => /\ r.error = "" /\ r.ended
        /\ showWinner(getActivePlayers(game)) = game.players[w].id
        /\ ~r.g.gameStarted
        /\ r.g.players[w].chips = game.players[w].chips + game.pot
        /\ \A j \in 1..Len(game.players) :
             j # w => r.g.players[j].chips = game.players[j].chips

\* a round of three in which the third player folded and the show found the
\* hands of the first two tied: the creator, seated first, holds the pot
C39_Witness ==
  /\ ~game.gameStarted /\ rounds = 1 /\ room = "open"
  /\ Len(game.players) = 3
  /\ game.players[3].isFolded
  /\ NonFoldedSeats(game) = {1, 2}
  /\ compareHands(game.players[1], game.players[2]) = NoId
  /\ Len(game.players[1].cards) = 3
  /\ game.pot > 0
  /\ game.players[1].chips = game.buyInTokens - game.players[1].totalBet + game.pot

(***************************************************************************)
(* Reconnecting sessions (checked under Spec)                              *)
(***************************************************************************)
\* the sessions registered for player p
SessionsOf(p) == {s \in Sockets : playerSockets[s] = p}

\* C40: when a seated wallet player has re-joined from a second session, the
\* disconnect of the session that joined first leaves the player in the
\* room's list, in the same seat and with chips and cards unchanged: the
\* player is removed only when the session they last joined with leaves. The
\* handler treats every session of a player alike, so with two sessions
\* registered its removal of the player on a disconnect must not happen.
C40_OldSessionLeavesPlayerSeated ==
  \A p \in SeatedIds(game) :
    (room = "open" /\ Cardinality(SessionsOf(p)) >= 2)
    => LET i == IndexOfId(game.players, p)
           r == onDisconnect(game, p)
       IN /\ Len(r.g.players) = Len(game.players)
          /\ r.g.players[i] = game.players[i]

====
